---- MODULE Spec2Model ----
(***************************************************************************)
(* ClawRoute: the request pipeline of the proxy.                           *)
(*   router.ts    routeRequest, getEscalatedModel, isProEnabled            *)
(*   models.ts    getModelEntry, getProviderForModel, calculateCost        *)
(*   validator.ts validateResponse                                         *)
(*   executor.ts  executeRequest, makeProviderRequest, executePassthrough  *)
(*   index.ts     the POST /v1/chat/completions handler and the admin      *)
(*                mutators                                                 *)
(*                                                                         *)
(* A model id "provider/name" is the tuple of its '/'-separated segments,  *)
(* so that split('/'), includes('/') and endsWith('/'+x) are computed.     *)
(* Prices are in cents per million tokens, costs in 1e-8 USD.              *)
(***************************************************************************)
EXTENDS Integers, Sequences, FiniteSets, TLC

VARIABLES config, pc, request, classification, routing, exec, calls, result, toolSeen, pump,
          handler

vars == <<config, pc, request, classification, routing, exec, calls, result, toolSeen, pump,
         handler>>

\* ------------------------------------------------------------------------
\* Bounds of the model
\* ------------------------------------------------------------------------
MaxRetriesBound == 1
MaxChunks == 2

MaxContentLen == 2

\* ------------------------------------------------------------------------
\* types.ts
\* ------------------------------------------------------------------------
HEARTBEAT == "heartbeat"
SIMPLE == "simple"
MODERATE == "moderate"
COMPLEX == "complex"
FRONTIER == "frontier"

TaskTier == {HEARTBEAT, SIMPLE, MODERATE, COMPLEX, FRONTIER}

TIER_ORDER == [t \in TaskTier |->
    CASE t = HEARTBEAT -> 0
      [] t = SIMPLE -> 1
      [] t = MODERATE -> 2
      [] t = COMPLEX -> 3
      [] t = FRONTIER -> 4]

ProviderType == {"anthropic", "openai", "google", "deepseek", "openrouter"}

\* The absent model (null) and the absent registry entry.
NoModel == <<>>
NoEntry == [id |-> NoModel, provider |-> "", inputCostPer1M |-> 0, outputCostPer1M |-> 0]

\* ------------------------------------------------------------------------
\* Model ids used by the configuration and by clients
\* ------------------------------------------------------------------------
GeminiFlashLite == <<"google", "gemini-2.5-flash-lite">>
DeepseekChat == <<"deepseek", "deepseek-chat">>
GeminiFlash == <<"google", "gemini-2.5-flash">>
Gpt4oMini == <<"openai", "gpt-4o-mini">>
ClaudeSonnet45 == <<"anthropic", "claude-sonnet-4-5">>
Gpt4o == <<"openai", "gpt-4o">>
BareGpt4o == <<"gpt-4o">>
CasedGpt4o == <<"OpenAI", "gpt-4o">>
RoutedGeminiPro == <<"openrouter", "gemini-2.5-pro">>

\* config.models: the bundled tier table.
DEFAULT_TIER_MODELS == [t \in TaskTier |->
    CASE t = HEARTBEAT -> [primary |-> GeminiFlashLite, fallback |-> DeepseekChat]
      [] t = SIMPLE -> [primary |-> DeepseekChat, fallback |-> GeminiFlash]
      [] t = MODERATE -> [primary |-> GeminiFlash, fallback |-> Gpt4oMini]
      [] t = COMPLEX -> [primary |-> ClaudeSonnet45, fallback |-> Gpt4o]
      [] t = FRONTIER -> [primary |-> ClaudeSonnet45, fallback |-> Gpt4o]]

\* ------------------------------------------------------------------------
\* models.ts
\* ------------------------------------------------------------------------
Entry(id, provider, inCost, outCost) ==
    [id |-> id, provider |-> provider, inputCostPer1M |-> inCost, outputCostPer1M |-> outCost]

DEFAULT_MODELS == <<
    Entry(GeminiFlashLite, "google", 10, 40),
    Entry(DeepseekChat, "deepseek", 28, 112),
    Entry(GeminiFlash, "google", 30, 250),
    Entry(<<"openai", "gpt-5-mini">>, "openai", 25, 200),
    Entry(<<"anthropic", "claude-sonnet-4-6">>, "anthropic", 300, 1500),
    Entry(<<"google", "gemini-2.5-pro">>, "google", 125, 1000),
    Entry(<<"openai", "gpt-5.2">>, "openai", 175, 1400),
    Entry(<<"openai", "o3">>, "openai", 200, 800),
    Entry(<<"anthropic", "claude-opus-4-6">>, "anthropic", 1500, 7500) >>

\* String.prototype.toLowerCase on the segments that occur in the model.
toLowerCase(s) ==
    IF s = "OpenAI" THEN "openai"
    ELSE IF s \in {"Bearer", "BEARER"} THEN "bearer"
    ELSE s

LowerId(m) == [i \in 1..Len(m) |-> toLowerCase(m[i])]

\* a.endsWith('/' + b) for ids a, b given by their segments.
EndsWithSlash(a, b) ==
    /\ Len(b) >= 1
    /\ Len(b) < Len(a)
    /\ SubSeq(a, Len(a) - Len(b) + 1, Len(a)) = b

\* a.includes(b) on lower-cased ids: equal ids, and the one proper
\* containment among the ids of the model.
IncludesId(a, b) ==
    \/ LowerId(a) = LowerId(b)
    \/ (LowerId(a) = GeminiFlashLite /\ LowerId(b) = GeminiFlash)

\* name.includes(sub) for the bare names of the model.
NameIncludes(name, sub) ==
    <<name, sub>> \in { <<"gpt-4o", "gpt">>, <<"gpt-4o-mini", "gpt">>,
                        <<"claude-sonnet-4-5", "claude">>,
                        <<"gemini-2.5-pro", "gemini">>,
                        <<"gemini-2.5-flash", "gemini">>,
                        <<"gemini-2.5-flash-lite", "gemini">>,
                        <<"deepseek-chat", "deepseek">> }

\* The registry keeps insertion order: the first entry among those at the
\* indices S, or NoEntry.
FirstEntry(S) ==
    IF S = {} THEN NoEntry
    ELSE DEFAULT_MODELS[CHOOSE i \in S : \A j \in S : i <= j]

getModelEntry(modelId) ==
    LET ids == 1..Len(DEFAULT_MODELS)
        exact == { i \in ids : DEFAULT_MODELS[i].id = modelId }
        suffix == { i \in ids :
                      \/ EndsWithSlash(DEFAULT_MODELS[i].id, modelId)
                      \/ (Len(modelId) >= 2
                            /\ modelId[Len(modelId)] = DEFAULT_MODELS[i].id[2]) }
        fuzzy == { i \in ids :
                     \/ IncludesId(DEFAULT_MODELS[i].id, modelId)
                     \/ IncludesId(modelId, DEFAULT_MODELS[i].id) }
    IN  IF exact /= {} THEN FirstEntry(exact)
        ELSE IF suffix /= {} THEN FirstEntry(suffix)
        ELSE FirstEntry(fuzzy)

getProviderForModel(modelId) ==
    IF Len(modelId) > 1 /\ toLowerCase(modelId[1]) \in ProviderType
    THEN toLowerCase(modelId[1])
    ELSE IF getModelEntry(modelId) /= NoEntry THEN getModelEntry(modelId).provider
    ELSE LET name == toLowerCase(modelId[Len(modelId)])
         IN  IF NameIncludes(name, "claude") THEN "anthropic"
             ELSE IF NameIncludes(name, "gpt") \/ NameIncludes(name, "o3")
                     \/ NameIncludes(name, "o1") THEN "openai"
             ELSE IF NameIncludes(name, "gemini") THEN "google"
             ELSE IF NameIncludes(name, "deepseek") THEN "deepseek"
             ELSE "openai"

calculateCost(modelId, inputTokens, outputTokens) ==
    LET entry == getModelEntry(modelId)
    IN  IF entry = NoEntry
        THEN inputTokens * 175 + outputTokens * 1400
        ELSE inputTokens * entry.inputCostPer1M + outputTokens * entry.outputCostPer1M

\* ------------------------------------------------------------------------
\* config.ts
\* ------------------------------------------------------------------------
hasApiKey(cfg, provider) == cfg.apiKeys[provider] /= ""

getApiKey(cfg, provider) == cfg.apiKeys[provider]

\* ------------------------------------------------------------------------
\* router.ts
\* ------------------------------------------------------------------------
Min(a, b) == IF a < b THEN a ELSE b

Max(a, b) == IF a > b THEN a ELSE b

\* config.license.enabled, or a grace period that has not run out.
isProEnabled(cfg) == cfg.license.enabled

shouldFreeModerateUseOriginal(tier, toolsDetected, cfg) ==
    IF isProEnabled(cfg) THEN FALSE
    ELSE IF tier /= MODERATE THEN FALSE
    ELSE toolsDetected

shouldFreeTierUseOriginal(tier, cfg) ==
    IF isProEnabled(cfg) THEN FALSE
    ELSE tier = COMPLEX \/ tier = FRONTIER

\* A reason string: its fixed text and the values interpolated into it.
Reason(text, tier, model, suffix) ==
    [text |-> text, tier |-> tier, model |-> model, suffix |-> suffix]

\* DisabledDecision with a fault: the tier's primary model is used although
\* ClawRoute is disabled.
DisabledDecisionRoutes(req, cls) ==
    [originalModel |-> req.model,
     routedModel |-> DEFAULT_TIER_MODELS[cls.tier].primary,
     tier |-> cls.tier,
     reason |-> Reason("ClawRoute disabled", "", NoModel, ""),
     isDryRun |-> FALSE,
     isOverride |-> FALSE,
     isPassthrough |-> TRUE,
     estimatedSavingsUsd |-> 0,
     safeToRetry |-> cls.safeToRetry]

\* Step 1 of routeRequest: the decision returned when ClawRoute is disabled.
DisabledDecision(req, cls) ==
    [originalModel |-> req.model,
     routedModel |-> req.model,
     tier |-> cls.tier,
     reason |-> Reason("ClawRoute disabled", "", NoModel, ""),
     isDryRun |-> FALSE,
     isOverride |-> FALSE,
     isPassthrough |-> TRUE,
     estimatedSavingsUsd |-> 0,
     safeToRetry |-> cls.safeToRetry]

\* OverrideStep with a fault: globalForceModel is not consulted.
OverrideStepIgnored(req, cfg) ==
    [routedModel |-> req.model,
     reason |-> Reason("passthrough", "", NoModel, ""),
     isOverride |-> FALSE, isPassthrough |-> FALSE]

\* Step 2: the global force override.
OverrideStep(req, cfg) ==
    IF cfg.overrides.globalForceModel /= NoModel
    THEN [routedModel |-> cfg.overrides.globalForceModel,
          reason |-> Reason("global override: ", "", cfg.overrides.globalForceModel, ""),
          isOverride |-> TRUE, isPassthrough |-> FALSE]
    ELSE [routedModel |-> req.model,
          reason |-> Reason("passthrough", "", NoModel, ""),
          isOverride |-> FALSE, isPassthrough |-> FALSE]

\* TierStep with a fault: the primary model is taken without looking at the
\* key of its provider.
TierStepPrimaryUnchecked(d, req, cls, cfg) ==
    IF d.isOverride THEN d
    ELSE IF shouldFreeTierUseOriginal(cls.tier, cfg)
            \/ shouldFreeModerateUseOriginal(cls.tier, cls.toolsDetected, cfg)
    THEN [d EXCEPT !.routedModel = req.model, !.isPassthrough = TRUE]
    ELSE [d EXCEPT !.routedModel = cfg.models[cls.tier].primary]

\* Step 4: routing by tier, taken when no override applies.
TierStep(d, req, cls, cfg) ==
    LET tier == cls.tier
        tierConfig == cfg.models[tier]
        usePrimary == hasApiKey(cfg, getProviderForModel(tierConfig.primary))
        useFallback == hasApiKey(cfg, getProviderForModel(tierConfig.fallback))
    IN  IF d.isOverride THEN d
        ELSE IF shouldFreeTierUseOriginal(tier, cfg)
        THEN [d EXCEPT !.routedModel = req.model,
                       !.reason = Reason("tier ", tier, NoModel,
                                         ": Free plan - complex routing requires Pro"),
                       !.isPassthrough = TRUE]
        ELSE IF shouldFreeModerateUseOriginal(tier, cls.toolsDetected, cfg)
        THEN [d EXCEPT !.routedModel = req.model,
                       !.reason = Reason("tier ", tier, NoModel,
                                         ": Free plan - tool-aware routing requires Pro"),
                       !.isPassthrough = TRUE]
        ELSE IF usePrimary
        THEN [d EXCEPT !.routedModel = tierConfig.primary,
                       !.reason = Reason("tier ", tier, NoModel,
                                         IF isProEnabled(cfg) THEN ": primary model"
                                         ELSE ": primary model (Free)")]
        ELSE IF useFallback
        THEN [d EXCEPT !.routedModel = tierConfig.fallback,
                       !.reason = Reason("tier ", tier, NoModel,
                                         ": fallback model (primary unavailable)")]
        ELSE [d EXCEPT !.routedModel = req.model,
                       !.reason = Reason("tier ", tier, NoModel,
                                         ": no API keys for configured models, passthrough"),
                       !.isPassthrough = TRUE]

\* DryRunStep with a fault: the reason is rewritten but the routed model is
\* not put back to the original.
DryRunStepKeepsRouted(d, req, cfg) ==
    IF cfg.dryRun
    THEN [d EXCEPT !.reason = Reason("dry-run: would route to ", "", d.routedModel, "")]
    ELSE d

\* Step 5: dry-run keeps the original model and records the intended one.
DryRunStep(d, req, cfg) ==
    IF cfg.dryRun
    THEN [d EXCEPT !.routedModel = req.model,
                   !.reason = Reason("dry-run: would route to ", "", d.routedModel, "")]
    ELSE d

\* Step 6: estimated savings, never negative.
EstimatedSavings(req, routedModel) ==
    LET estimatedTokens == req.tokens
        estimatedOutputTokens == Min(estimatedTokens, 4000)
        originalCost == calculateCost(req.model, estimatedTokens, estimatedOutputTokens)
        routedCost == calculateCost(routedModel, estimatedTokens, estimatedOutputTokens)
    IN  Max(0, originalCost - routedCost)

routeRequest(req, cls, cfg) ==
    IF ~cfg.enabled THEN DisabledDecision(req, cls)
    ELSE LET d == DryRunStep(TierStep(OverrideStep(req, cfg), req, cls, cfg), req, cfg)
         IN  [originalModel |-> req.model,
              routedModel |-> d.routedModel,
              tier |-> cls.tier,
              reason |-> d.reason,
              isDryRun |-> cfg.dryRun,
              isOverride |-> d.isOverride,
              isPassthrough |-> d.isPassthrough,
              estimatedSavingsUsd |-> EstimatedSavings(req, d.routedModel),
              safeToRetry |-> cls.safeToRetry]

tierOrder == <<HEARTBEAT, SIMPLE, MODERATE, COMPLEX, FRONTIER>>

\* The absent escalation (null).
NoEscalation == [model |-> NoModel, tier |-> ""]

TierUsable(cfg, t) ==
    \/ hasApiKey(cfg, getProviderForModel(cfg.models[t].primary))
    \/ hasApiKey(cfg, getProviderForModel(cfg.models[t].fallback))

\* getEscalatedModel with a fault: the highest usable tier is taken instead of
\* the first one above the current tier.
getEscalatedModelHighest(currentTier, cfg) ==
    LET currentIndex == TIER_ORDER[currentTier] + 1
        usable == { i \in (currentIndex + 1)..Len(tierOrder) : TierUsable(cfg, tierOrder[i]) }
    IN  IF currentIndex >= Len(tierOrder) \/ usable = {} THEN NoEscalation
        ELSE LET i == CHOOSE k \in usable : \A j \in usable : k >= j
                 nextTier == tierOrder[i]
                 tierConfig == cfg.models[nextTier]
             IN  IF hasApiKey(cfg, getProviderForModel(tierConfig.primary))
                 THEN [model |-> tierConfig.primary, tier |-> nextTier]
                 ELSE [model |-> tierConfig.fallback, tier |-> nextTier]

\* getEscalatedModel with a fault: the search starts at the current tier
\* instead of the tier above it.
getEscalatedModelFromCurrent(currentTier, cfg) ==
    LET currentIndex == TIER_ORDER[currentTier] + 1
        usable == { i \in currentIndex..Len(tierOrder) : TierUsable(cfg, tierOrder[i]) }
    IN  IF currentIndex >= Len(tierOrder) \/ usable = {} THEN NoEscalation
        ELSE LET i == CHOOSE k \in usable : \A j \in usable : k <= j
                 nextTier == tierOrder[i]
                 tierConfig == cfg.models[nextTier]
             IN  IF hasApiKey(cfg, getProviderForModel(tierConfig.primary))
                 THEN [model |-> tierConfig.primary, tier |-> nextTier]
                 ELSE [model |-> tierConfig.fallback, tier |-> nextTier]

getEscalatedModel(currentTier, cfg) ==
    LET currentIndex == TIER_ORDER[currentTier] + 1
        usable == { i \in (currentIndex + 1)..Len(tierOrder) : TierUsable(cfg, tierOrder[i]) }
    IN  IF currentIndex >= Len(tierOrder) \/ usable = {} THEN NoEscalation
        ELSE LET i == CHOOSE k \in usable : \A j \in usable : k <= j
                 nextTier == tierOrder[i]
                 tierConfig == cfg.models[nextTier]
             IN  IF hasApiKey(cfg, getProviderForModel(tierConfig.primary))
                 THEN [model |-> tierConfig.primary, tier |-> nextTier]
                 ELSE [model |-> tierConfig.fallback, tier |-> nextTier]

\* ------------------------------------------------------------------------
\* classifier.ts
\* A request carries the tier its text, history and tools are classified at
\* (rule groups 1-5 and the post-classification adjustments); the retry flag
\* is computed from it as classifyRequest does.
\* ------------------------------------------------------------------------
classifyRequest(req) ==
    LET hasTools == req.hasTools
        tier == req.tier
        safe == tier = HEARTBEAT \/ tier = SIMPLE
    IN  [tier |-> tier,
         toolsDetected |-> hasTools,
         safeToRetry |-> IF hasTools THEN FALSE ELSE safe]

\* The post-classification adjustments and the retry flag (lines 316-373),
\* applied to the tier and confidence (in hundredths) that rule groups 1-5
\* arrive at.
TierAt(order) == CHOOSE t \in TaskTier : TIER_ORDER[t] = order

\* Adjust with a fault: the retry flag is not cleared for a request with tools.
AdjustToolsIgnored(tier, confidence, hasTools, ccfg) ==
    [tier |-> tier,
     confidence |-> confidence,
     toolsDetected |-> hasTools,
     safeToRetry |-> tier = HEARTBEAT \/ tier = SIMPLE]

\* Adjust with a fault: the tool-aware rule raises the tier and leaves the
\* confidence as the rule groups set it.
AdjustUncapped(tier, confidence, hasTools, ccfg) ==
    LET toolAware == ccfg.toolAwareRouting /\ hasTools /\ TIER_ORDER[tier] < TIER_ORDER[COMPLEX]
        tier1 == IF toolAware THEN COMPLEX ELSE tier
        nextTier == TierAt(Min(TIER_ORDER[tier1] + 1, TIER_ORDER[FRONTIER]))
        tier2 == IF ccfg.conservativeMode /\ confidence < ccfg.minConfidence
                 THEN nextTier ELSE tier1
        tier3 == IF ccfg.conservativeMode /\ confidence < 50 /\ tier2 /= FRONTIER
                 THEN FRONTIER ELSE tier2
    IN  [tier |-> tier3,
         confidence |-> confidence,
         toolsDetected |-> hasTools,
         safeToRetry |-> IF hasTools THEN FALSE ELSE tier3 = HEARTBEAT \/ tier3 = SIMPLE]

\* The post-classification adjustments and the result of classifyRequest
\* (classifier.ts lines 317-373); confidences are in hundredths.
Adjust(tier, confidence, hasTools, ccfg) ==
    LET toolAware == ccfg.toolAwareRouting /\ hasTools /\ TIER_ORDER[tier] < TIER_ORDER[COMPLEX]
        tier1 == IF toolAware THEN COMPLEX ELSE tier
        confidence1 == IF toolAware THEN Min(confidence, 80) ELSE confidence
        nextTier == TierAt(Min(TIER_ORDER[tier1] + 1, TIER_ORDER[FRONTIER]))
        tier2 == IF ccfg.conservativeMode /\ confidence1 < ccfg.minConfidence
                 THEN nextTier ELSE tier1
        tier3 == IF ccfg.conservativeMode /\ confidence1 < 50 /\ tier2 /= FRONTIER
                 THEN FRONTIER ELSE tier2
        safeToRetry == tier3 = HEARTBEAT \/ tier3 = SIMPLE
    IN  [tier |-> tier3,
         confidence |-> confidence1,
         toolsDetected |-> hasTools,
         safeToRetry |-> IF hasTools THEN FALSE ELSE safeToRetry]

\* ------------------------------------------------------------------------
\* validator.ts
\* A parsed upstream body: json (the text parses), error (an error field),
\* shape (how far choices[0].message exists), toolCalls (none, or calls whose
\* names and arguments are known / unknown / not JSON), content (empty, 1..14
\* characters, longer).
\* ------------------------------------------------------------------------
Body(json, error, shape, toolCalls, content) ==
    [json |-> json, error |-> error, shape |-> shape, toolCalls |-> toolCalls, content |-> content]

NoBody == Body(FALSE, FALSE, "none", "none", "empty")

Validation(valid, reason, hadToolCalls) ==
    [valid |-> valid, reason |-> reason, hadToolCalls |-> hadToolCalls]

validateResponse(ok, body, req, tier) ==
    IF ~ok THEN Validation(FALSE, "http_error", FALSE)
    ELSE IF ~body.json THEN Validation(FALSE, "invalid_json_body", FALSE)
    ELSE IF body.error THEN Validation(FALSE, "api_error_response", FALSE)
    ELSE IF body.shape = "no_choices" THEN Validation(FALSE, "no_choices", FALSE)
    ELSE IF body.shape = "no_first_choice" THEN Validation(FALSE, "no_first_choice", FALSE)
    ELSE IF body.shape = "no_message" THEN Validation(FALSE, "no_message", FALSE)
    ELSE LET hadToolCalls == body.toolCalls /= "none"
         IN  IF hadToolCalls /\ req.hasTools /\ body.toolCalls = "unknown"
             THEN Validation(FALSE, "unknown_tool_name", TRUE)
             ELSE IF hadToolCalls /\ req.hasTools /\ body.toolCalls = "badargs"
             THEN Validation(FALSE, "invalid_tool_call_json", TRUE)
             ELSE IF tier /= HEARTBEAT /\ ~hadToolCalls /\ body.content = "short"
             THEN Validation(FALSE, "suspiciously_short_response", FALSE)
             ELSE Validation(TRUE, "ok", hadToolCalls)

\* responseBody?.choices?.[0]?.message?.tool_calls is truthy.
BodyHasToolCalls(body) ==
    body.json /\ body.shape = "message" /\ body.toolCalls /= "none"

\* ------------------------------------------------------------------------
\* executor.ts
\* ------------------------------------------------------------------------
extractModelName(modelId) == IF Len(modelId) > 1 THEN Tail(modelId) ELSE modelId

\* buildBody with a fault: only the fields of ChatCompletionRequest the proxy
\* knows are sent on.
buildBodyKnownFields(req, modelId) ==
    [k \in ((DOMAIN req) \cap {"messages", "stream"}) \cup {"model"} |->
        IF k = "model" THEN extractModelName(modelId) ELSE req[k]]

\* The body makeProviderRequest sends (lines 390-393): { ...request, model:
\* extractModelName(modelId) }. A request is a function from its field names
\* to their values.
buildBody(req, modelId) ==
    [k \in (DOMAIN req) \cup {"model"} |->
        IF k = "model" THEN extractModelName(modelId) ELSE req[k]]

\* One fetch sent upstream: the provider addressed, the model on the wire,
\* and which statement of the code sent it.
Call(modelId, kind) ==
    [model |-> modelId,
     provider |-> getProviderForModel(modelId),
     wireModel |-> extractModelName(modelId),
     kind |-> kind]

\* A Response object: src is the call that produced it (0: made by the
\* proxy), consumed says its body stream has been read by response.text().
Resp(src, ok, consumed) == [src |-> src, ok |-> ok, consumed |-> consumed]

NoResp == Resp(0, FALSE, FALSE)

createErrorResponse == Resp(0, FALSE, FALSE)

\* What the client receives.
ClientResult(kind, src, ok) == [kind |-> kind, src |-> src, ok |-> ok]

NoResult == ClientResult("none", 0, FALSE)

Step(p, ex, cs, res) == [pc |-> p, exec |-> ex, calls |-> cs, result |-> res]

canEscalate(currentTier, cfg) ==
    IF isProEnabled(cfg) THEN TRUE ELSE currentTier = HEARTBEAT

maxRetries(cfg) == IF cfg.escalation.enabled THEN cfg.escalation.maxRetries ELSE 0

\* makeProviderRequest throws before fetch when the provider has no key;
\* otherwise the fetch is sent and awaited at awaitPc.
makeProviderRequest(cfg, ex, cs, modelId, kind, awaitPc) ==
    IF getApiKey(cfg, getProviderForModel(modelId)) = ""
    THEN Step(awaitPc, [ex EXCEPT !.sent = FALSE], cs, NoResult)
    ELSE Step(awaitPc, [ex EXCEPT !.sent = TRUE], Append(cs, Call(modelId, kind)), NoResult)

\* The models of a chain for which makeProviderRequest reaches its fetch: the
\* ones whose provider has a key (lines 385-389).
RECURSIVE DispatchedOf(_, _)
DispatchedOf(cfg, chain) ==
    IF chain = <<>> THEN <<>>
    ELSE IF getApiKey(cfg, getProviderForModel(Head(chain))) = ""
    THEN DispatchedOf(cfg, Tail(chain))
    ELSE <<Head(chain)>> \o DispatchedOf(cfg, Tail(chain))

\* executePassthrough with a fault: the error response is returned without
\* any dispatch.
executePassthroughDrops(cfg, req, ex, cs) ==
    Step("done", ex, cs, ClientResult("proxy_error", 0, FALSE))

\* executePassthrough with a fault: the request is sent twice.
executePassthroughTwice(cfg, req, ex, cs) ==
    IF getApiKey(cfg, getProviderForModel(req.model)) = ""
    THEN Step("done", ex, cs, ClientResult("proxy_error", 0, FALSE))
    ELSE Step("passthrough", [ex EXCEPT !.sent = TRUE],
              Append(Append(cs, Call(req.model, "passthrough")), Call(req.model, "passthrough")),
              NoResult)

executePassthrough(cfg, req, ex, cs) ==
    IF getApiKey(cfg, getProviderForModel(req.model)) = ""
    THEN Step("done", ex, cs, ClientResult("proxy_error", 0, FALSE))
    ELSE makeProviderRequest(cfg, ex, cs, req.model, "passthrough", "passthrough")

\* The locals of executeRequest at its start (lines 60-73).
InitialExec(rt) ==
    [currentModel |-> rt.routedModel,
     currentTier |-> rt.tier,
     retryCount |-> 0,
     escalated |-> FALSE,
     escalationChain |-> <<rt.routedModel>>,
     hadToolCalls |-> FALSE,
     responseBody |-> NoBody,
     response |-> NoResp,
     escalation |-> NoEscalation,
     sent |-> FALSE]

NoExec ==
    [currentModel |-> NoModel,
     currentTier |-> "",
     retryCount |-> 0,
     escalated |-> FALSE,
     escalationChain |-> <<>>,
     hadToolCalls |-> FALSE,
     responseBody |-> NoBody,
     response |-> NoResp,
     escalation |-> NoEscalation,
     sent |-> FALSE]

\* await sleep(retryDelayMs) with the escalation already chosen.
Escalate(ex, cs, escalation) ==
    Step("sleep", [ex EXCEPT !.escalation = escalation], cs, NoResult)

\* Continue with a fault: the escalation is applied without setting the
\* escalated flag.
ContinueUnflagged(cfg, ex, cs) ==
    LET ex2 == [ex EXCEPT !.currentModel = ex.escalation.model,
                          !.currentTier = ex.escalation.tier,
                          !.escalationChain = Append(@, ex.escalation.model),
                          !.retryCount = @ + 1,
                          !.escalation = NoEscalation]
    IN  makeProviderRequest(cfg, ex2, cs, ex2.currentModel, "route", "attempt")

\* After the sleep: the escalation is applied and the loop continues with
\* the next makeProviderRequest (lines 101-106, 252-257 and the like).
Continue(cfg, ex, cs) ==
    LET ex2 == [ex EXCEPT !.currentModel = ex.escalation.model,
                          !.currentTier = ex.escalation.tier,
                          !.escalationChain = Append(@, ex.escalation.model),
                          !.escalated = TRUE,
                          !.retryCount = @ + 1,
                          !.escalation = NoEscalation]
    IN  makeProviderRequest(cfg, ex2, cs, ex2.currentModel, "route", "attempt")

\* After the non-streaming loop (lines 334-367). Wrapping a Response whose
\* body stream was read by text() throws a TypeError, which leaves
\* executeRequest and reaches the handler's catch (index.ts line 376).
FinishNonStreaming(cfg, req, ex, cs) ==
    LET ex2 == [ex EXCEPT !.hadToolCalls = @ \/ BodyHasToolCalls(ex.responseBody)]
    IN  IF ex.response.consumed
        THEN Step("thrown", ex2, cs, NoResult)
        ELSE Step("done", ex2, cs,
                  ClientResult(IF ex.response.src = 0 THEN "proxy_error" ELSE "upstream",
                               ex.response.src, ex.response.ok))

\* After the streaming loop (lines 160-213): an OK response is piped.
FinishStreaming(ex, cs) ==
    IF ex.response.ok
    THEN Step("piping", ex, cs, ClientResult("stream", ex.response.src, TRUE))
    ELSE Step("done", ex, cs,
              ClientResult(IF ex.response.src = 0 THEN "proxy_error" ELSE "upstream",
                           ex.response.src, FALSE))

Finish(cfg, req, ex, cs) ==
    IF req.stream THEN FinishStreaming(ex, cs) ELSE FinishNonStreaming(cfg, req, ex, cs)

\* CatchBranch with a fault: a transport error escalates without looking at
\* safeToRetry.
CatchBranchUnsafe(cfg, req, rt, ex, cs) ==
    LET escalation == getEscalatedModel(ex.currentTier, cfg)
    IN  IF /\ cfg.escalation.enabled
           /\ ex.retryCount < maxRetries(cfg)
           /\ escalation /= NoEscalation
        THEN Escalate(ex, cs, escalation)
        ELSE IF cfg.escalation.alwaysFallbackToOriginal
        THEN makeProviderRequest(cfg,
                 [ex EXCEPT !.currentModel = rt.originalModel,
                            !.escalationChain = Append(@, rt.originalModel)],
                 cs, rt.originalModel, "fallback", "fallbackCatch")
        ELSE Finish(cfg, req, [ex EXCEPT !.response = createErrorResponse], cs)

\* CatchBranch with a fault: a transport error is turned into the error
\* response at once, without escalation or fallback.
CatchBranchSurfaces(cfg, req, rt, ex, cs) ==
    Finish(cfg, req, [ex EXCEPT !.response = createErrorResponse], cs)

\* The catch block of the retry loop (lines 122-157 and 297-331).
CatchBranch(cfg, req, rt, ex, cs) ==
    LET escalation == getEscalatedModel(ex.currentTier, cfg)
    IN  IF /\ cfg.escalation.enabled
           /\ ex.retryCount < maxRetries(cfg)
           /\ rt.safeToRetry
           /\ escalation /= NoEscalation
        THEN Escalate(ex, cs, escalation)
        ELSE IF cfg.escalation.alwaysFallbackToOriginal
        THEN makeProviderRequest(cfg,
                 [ex EXCEPT !.currentModel = rt.originalModel,
                            !.escalationChain = Append(@, rt.originalModel)],
                 cs, rt.originalModel, "fallback", "fallbackCatch")
        ELSE Finish(cfg, req, [ex EXCEPT !.response = createErrorResponse], cs)

\* HttpErrorBranch with a fault: the fallback to the original model is not
\* appended to escalationChain.
HttpErrorBranchUnchained(cfg, req, rt, ex, cs) ==
    LET escalation == getEscalatedModel(ex.currentTier, cfg)
    IN  IF /\ cfg.escalation.enabled
           /\ ex.retryCount < maxRetries(cfg)
           /\ rt.safeToRetry
           /\ (req.stream => canEscalate(ex.currentTier, cfg))
           /\ escalation /= NoEscalation
        THEN Escalate(ex, cs, escalation)
        ELSE IF cfg.escalation.alwaysFallbackToOriginal /\ ex.currentModel /= rt.originalModel
        THEN makeProviderRequest(cfg, [ex EXCEPT !.currentModel = rt.originalModel],
                                 cs, rt.originalModel, "fallback", "fallback")
        ELSE Finish(cfg, req, ex, cs)

\* The branch for a response that is not OK (lines 89-117 and 270-296).
HttpErrorBranch(cfg, req, rt, ex, cs) ==
    LET escalation == getEscalatedModel(ex.currentTier, cfg)
    IN  IF /\ cfg.escalation.enabled
           /\ ex.retryCount < maxRetries(cfg)
           /\ rt.safeToRetry
           /\ (req.stream => canEscalate(ex.currentTier, cfg))
           /\ escalation /= NoEscalation
        THEN Escalate(ex, cs, escalation)
        ELSE IF cfg.escalation.alwaysFallbackToOriginal /\ ex.currentModel /= rt.originalModel
        THEN makeProviderRequest(cfg,
                 [ex EXCEPT !.currentModel = rt.originalModel,
                            !.escalationChain = Append(@, rt.originalModel)],
                 cs, rt.originalModel, "fallback", "fallback")
        ELSE Finish(cfg, req, ex, cs)

\* An OK response on the non-streaming path (lines 227-269).
OkBranch(cfg, req, rt, ex, cs, body) ==
    LET responseBody == IF body.json THEN body ELSE NoBody
        validation == validateResponse(TRUE, responseBody, req, ex.currentTier)
        ex2 == [ex EXCEPT !.responseBody = responseBody,
                          !.hadToolCalls = validation.hadToolCalls,
                          !.response = Resp(Len(cs), TRUE, TRUE)]
        escalation == getEscalatedModel(ex.currentTier, cfg)
        recreated == [ex2 EXCEPT !.response = Resp(Len(cs), TRUE, FALSE)]
    IN  IF ~validation.valid
           /\ (\/ validation.hadToolCalls
               \/ ~rt.safeToRetry
               \/ ~cfg.escalation.onlyRetryWithoutToolCalls)
        THEN Finish(cfg, req, ex2, cs)
        ELSE IF /\ ~validation.valid
                /\ cfg.escalation.enabled
                /\ ex.retryCount < maxRetries(cfg)
                /\ escalation /= NoEscalation
        THEN Escalate(ex2, cs, escalation)
        ELSE Finish(cfg, req, recreated, cs)

\* ------------------------------------------------------------------------
\* Configurations and requests of the model
\* ------------------------------------------------------------------------
Keys(withKey) == [p \in ProviderType |-> IF p \in withKey THEN "key" ELSE ""]

\* Startup requires at least one provider key.
KeyConfigs ==
    { Keys({"anthropic", "openai", "google", "deepseek"}),
      Keys({"openai"}),
      Keys({"google", "deepseek"}) }

Config(enabled, dryRun, force, keys, esc, pro) ==
    [enabled |-> enabled,
     dryRun |-> dryRun,
     overrides |-> [globalForceModel |-> force],
     apiKeys |-> keys,
     escalation |-> esc,
     models |-> DEFAULT_TIER_MODELS,
     license |-> [enabled |-> pro]]

EscalationConfigs ==
    [enabled : BOOLEAN,
     maxRetries : 0..MaxRetriesBound,
     onlyRetryWithoutToolCalls : BOOLEAN,
     alwaysFallbackToOriginal : BOOLEAN]

\* The configuration at startup: overrides are runtime-only and start empty.
StartupConfigs ==
    { Config(en, dry, NoModel, keys, esc, pro) :
        en \in BOOLEAN, dry \in BOOLEAN, keys \in KeyConfigs,
        esc \in EscalationConfigs, pro \in BOOLEAN }

OriginalModels == {ClaudeSonnet45, GeminiFlashLite}

ForceModels == {Gpt4o}

Request(model, stream, hasTools, tier, tokens, form) ==
    [model |-> model, stream |-> stream, hasTools |-> hasTools,
     tier |-> tier, tokens |-> tokens, form |-> form]

NoRequest == Request(NoModel, FALSE, FALSE, "", 0, "none")

\* Tiers classifyRequest can return: a request with tools is never left at
\* Moderate (rule group 3 moves it to Complex).
TiersFor(hasTools) == IF hasTools THEN TaskTier \ {MODERATE} ELSE TaskTier

\* Bodies posted to /v1/chat/completions: well-formed requests, a JSON body
\* without messages (classifyRequest throws on it), and text that is not JSON.
Requests ==
    { r \in { Request(m, st, tl, t, 8, "ok") :
                 m \in OriginalModels, st \in BOOLEAN, tl \in BOOLEAN, t \in TaskTier } :
        r.tier \in TiersFor(r.hasTools) }
    \cup { Request(m, FALSE, FALSE, MODERATE, 8, "malformed") : m \in OriginalModels }
    \cup { Request(NoModel, FALSE, FALSE, "", 0, "badjson") }

\* Bodies an upstream answers a non-streamed call with.
UpstreamBodies ==
    { Body(TRUE, FALSE, "message", "none", "long"),
      Body(TRUE, FALSE, "message", "none", "short"),
      Body(FALSE, FALSE, "none", "none", "empty"),
      Body(TRUE, FALSE, "message", "known", "empty"),
      Body(TRUE, FALSE, "message", "unknown", "empty") }

NoPump == [state |-> "none", written |-> 0, callsAtAttach |-> 0]

\* Before the handler has classified and routed the request.
NoClassification == [tier |-> "", toolsDetected |-> FALSE, safeToRetry |-> FALSE]

NoRouting ==
    [originalModel |-> NoModel,
     routedModel |-> NoModel,
     tier |-> "",
     reason |-> Reason("", "", NoModel, ""),
     isDryRun |-> FALSE,
     isOverride |-> FALSE,
     isPassthrough |-> FALSE,
     estimatedSavingsUsd |-> 0,
     safeToRetry |-> FALSE]

\* The handler's path: the branch its enabled check took (line 315) and
\* whether its catch block (line 376) has been entered.
NoHandler == [branch |-> "none", caught |-> FALSE]

\* ------------------------------------------------------------------------
\* index.ts: the handlers
\* ------------------------------------------------------------------------
Init ==
    /\ config \in StartupConfigs
    /\ pc = "idle"
    /\ request = NoRequest
    /\ classification = NoClassification
    /\ routing = NoRouting
    /\ exec = NoExec
    /\ calls = <<>>
    /\ result = NoResult
    /\ toolSeen = 0
    /\ pump = NoPump
    /\ handler = NoHandler

Take(s) ==
    /\ pc' = s.pc
    /\ exec' = s.exec
    /\ calls' = s.calls
    /\ result' = s.result

\* The admin mutators change enabled, dryRun and overrides only.
\* executeRequest and executePassthrough read none of the three (they read
\* escalation, models, apiKeys and license), so the mutators other than
\* ApiDisable are interleaved with a request up to the handler's call of them.
ApiEnable ==
    /\ pc \in {"idle", "reading"}
    /\ config' = [config EXCEPT !.enabled = TRUE]
    /\ UNCHANGED <<pc, request, classification, routing, exec, calls, result, toolSeen, pump, handler>>

\* POST /api/disable, the kill switch: interleaved with every step of a
\* request, the retry loop of executeRequest included.
ApiDisable ==
    /\ config' = [config EXCEPT !.enabled = FALSE]
    /\ UNCHANGED <<pc, request, classification, routing, exec, calls, result, toolSeen, pump, handler>>

ApiDryRunEnable ==
    /\ pc \in {"idle", "reading"}
    /\ config' = [config EXCEPT !.dryRun = TRUE]
    /\ UNCHANGED <<pc, request, classification, routing, exec, calls, result, toolSeen, pump, handler>>

ApiDryRunDisable ==
    /\ pc \in {"idle", "reading"}
    /\ config' = [config EXCEPT !.dryRun = FALSE]
    /\ UNCHANGED <<pc, request, classification, routing, exec, calls, result, toolSeen, pump, handler>>

\* POST /api/override/global: {enabled:false} clears, {model} sets, anything
\* else answers 400 and changes nothing.
ApiOverrideGlobal ==
    /\ pc \in {"idle", "reading"}
    /\ \E body \in [enabledFalse : BOOLEAN, model : ForceModels \cup {NoModel}, json : BOOLEAN] :
          config' = IF ~body.json THEN config
                    ELSE IF body.enabledFalse
                    THEN [config EXCEPT !.overrides.globalForceModel = NoModel]
                    ELSE IF body.model /= NoModel
                    THEN [config EXCEPT !.overrides.globalForceModel = body.model]
                    ELSE config
    /\ UNCHANGED <<pc, request, classification, routing, exec, calls, result, toolSeen, pump, handler>>

\* A POST /v1/chat/completions arrives; the handler awaits c.req.json().
Arrive ==
    /\ pc = "idle"
    /\ \E req \in Requests : request' = req
    /\ pc' = "reading"
    /\ UNCHANGED <<config, classification, routing, exec, calls, result, toolSeen, pump, handler>>

\* The handler from the parsed body to its first await (lines 306-340): a
\* body that is not JSON and a body classifyRequest throws on both reach the
\* catch block.
HandleRequest ==
    /\ pc = "reading"
    /\ IF request.form = "badjson"
       THEN /\ Take(Step("thrown", exec, calls, NoResult))
            /\ UNCHANGED <<classification, routing, handler>>
       ELSE IF ~config.enabled
       THEN /\ Take(executePassthrough(config, request, exec, calls))
            /\ handler' = [handler EXCEPT !.branch = "disabled"]
            /\ UNCHANGED <<classification, routing>>
       ELSE IF request.form = "malformed"
       THEN /\ Take(Step("thrown", exec, calls, NoResult))
            /\ handler' = [handler EXCEPT !.branch = "enabled"]
            /\ UNCHANGED <<classification, routing>>
       ELSE LET cls == classifyRequest(request)
                rt == routeRequest(request, cls, config)
            IN  /\ classification' = cls
                /\ routing' = rt
                /\ handler' = [handler EXCEPT !.branch = "enabled"]
                /\ Take(makeProviderRequest(config, InitialExec(rt), calls,
                                            rt.routedModel, "route", "attempt"))
    /\ UNCHANGED <<config, request, toolSeen, pump>>

\* The handler's catch block (lines 376-396): the body is read again and
\* passed through; when that read throws too, the client gets a 500.
HandlerCatch ==
    /\ pc = "thrown"
    /\ handler' = [handler EXCEPT !.caught = TRUE]
    /\ IF request.form = "badjson"
       THEN Take(Step("done", exec, calls, ClientResult("proxy_error", 0, FALSE)))
       ELSE Take(executePassthrough(config, request, exec, calls))
    /\ UNCHANGED <<config, request, classification, routing, toolSeen, pump>>

\* The fetch of executePassthrough settles (lines 504-508).
PassthroughReturns ==
    /\ pc = "passthrough"
    /\ \E outcome \in {"throw", "http_error", "ok"} :
          Take(Step("done", exec, calls,
                    IF outcome = "throw" THEN ClientResult("proxy_error", 0, FALSE)
                    ELSE ClientResult("upstream", Len(calls), outcome = "ok")))
    /\ UNCHANGED <<config, request, classification, routing, toolSeen, pump, handler>>

\* makeProviderRequest of the retry loop throws.
AttemptThrows ==
    /\ pc = "attempt"
    /\ Take(CatchBranch(config, request, routing, exec, calls))
    /\ UNCHANGED <<config, request, classification, routing, toolSeen, pump, handler>>

\* makeProviderRequest of the retry loop returns a response that is not OK.
AttemptHttpError ==
    /\ pc = "attempt"
    /\ exec.sent
    /\ Take(HttpErrorBranch(config, request, routing,
                            [exec EXCEPT !.response = Resp(Len(calls), FALSE, FALSE)], calls))
    /\ UNCHANGED <<config, request, classification, routing, toolSeen, pump, handler>>

\* makeProviderRequest of the retry loop returns an OK response.
AttemptOk ==
    /\ pc = "attempt"
    /\ exec.sent
    /\ IF request.stream
       THEN /\ Take(Finish(config, request,
                           [exec EXCEPT !.response = Resp(Len(calls), TRUE, FALSE)], calls))
            /\ UNCHANGED toolSeen
       ELSE \E body \in UpstreamBodies :
               /\ Take(OkBranch(config, request, routing, exec, calls, body))
               /\ toolSeen' = IF BodyHasToolCalls(body) THEN Len(calls) ELSE toolSeen
    /\ UNCHANGED <<config, request, classification, routing, pump, handler>>

\* sleep(retryDelayMs) ends: the escalation is applied and the loop continues
\* with the next makeProviderRequest.
SleepDone ==
    /\ pc = "sleep"
    /\ Take(Continue(config, exec, calls))
    /\ UNCHANGED <<config, request, classification, routing, toolSeen, pump, handler>>

\* The fallback dispatch of the not-OK branch settles (lines 115 and 293);
\* it is inside the try block, so a throw reaches the loop's catch.
FallbackReturns ==
    /\ pc = "fallback"
    /\ \/ Take(CatchBranch(config, request, routing, exec, calls))
       \/ /\ exec.sent
          /\ \E ok \in BOOLEAN :
                Take(Finish(config, request,
                            [exec EXCEPT !.response = Resp(Len(calls), ok, FALSE)], calls))
    /\ UNCHANGED <<config, request, classification, routing, toolSeen, pump, handler>>

\* The fallback dispatch of the catch block settles (lines 145-152 and
\* 320-326); it has a try of its own.
FallbackCatchReturns ==
    /\ pc = "fallbackCatch"
    /\ \/ Take(Finish(config, request, [exec EXCEPT !.response = createErrorResponse], calls))
       \/ /\ exec.sent
          /\ \E ok \in BOOLEAN :
                Take(Finish(config, request,
                            [exec EXCEPT !.response = Resp(Len(calls), ok, FALSE)], calls))
    /\ UNCHANGED <<config, request, classification, routing, toolSeen, pump, handler>>

\* streaming.ts pipeStream: one chunk is read upstream and written to the client.
PumpChunk ==
    /\ pc = "piping"
    /\ pump.written < MaxChunks
    /\ pump' = [state |-> "open", written |-> pump.written + 1,
                callsAtAttach |-> IF pump.state = "none" THEN Len(calls) ELSE pump.callsAtAttach]
    /\ UNCHANGED <<config, pc, request, classification, routing, exec, calls, result, toolSeen, handler>>

\* PumpEnd with a fault: a failed read sends the request again.
PumpEndRedispatches ==
    /\ pc = "piping"
    /\ pump' = [pump EXCEPT !.state = "closed"]
    /\ Take(makeProviderRequest(config, exec, calls, exec.currentModel, "route", "attempt"))
    /\ UNCHANGED <<config, request, classification, routing, toolSeen, handler>>

\* pipeStream ends: the upstream is done, a read fails or the client is gone.
PumpEnd ==
    /\ pc = "piping"
    /\ pump' = [pump EXCEPT !.state = "closed"]
    /\ pc' = "done"
    /\ UNCHANGED <<config, request, classification, routing, exec, calls, result, toolSeen, handler>>

Next ==
    \/ ApiEnable
    \/ ApiDisable
    \/ ApiDryRunEnable
    \/ ApiDryRunDisable
    \/ ApiOverrideGlobal
    \/ Arrive
    \/ HandleRequest
    \/ HandlerCatch
    \/ PassthroughReturns
    \/ AttemptThrows
    \/ AttemptHttpError
    \/ AttemptOk
    \/ SleepDone
    \/ FallbackReturns
    \/ FallbackCatchReturns
    \/ PumpChunk
    \/ PumpEnd

Spec == Init /\ [][Next]_vars

\* ------------------------------------------------------------------------
\* routeRequest as a function of its arguments
\* ------------------------------------------------------------------------
RouteModels == OriginalModels \cup {BareGpt4o, CasedGpt4o, RoutedGeminiPro}

RouteTokens == {8, 5000}

RouteForceModels == ForceModels \cup {DeepseekChat}

Classifications == [tier : TaskTier, toolsDetected : BOOLEAN, safeToRetry : BOOLEAN]

RouteConfigs ==
    { Config(en, dry, force, Keys(withKey),
             [enabled |-> TRUE, maxRetries |-> MaxRetriesBound,
              onlyRetryWithoutToolCalls |-> TRUE, alwaysFallbackToOriginal |-> TRUE],
             pro) :
        en \in BOOLEAN, dry \in BOOLEAN, force \in RouteForceModels \cup {NoModel},
        withKey \in SUBSET {"anthropic", "openai", "google", "deepseek"},
        pro \in BOOLEAN }

InitRoute ==
    /\ config \in RouteConfigs
    /\ classification \in Classifications
    /\ \E m \in RouteModels, tokens \in RouteTokens :
          request = Request(m, FALSE, classification.toolsDetected,
                            classification.tier, tokens, "ok")
    /\ pc = "route"
    /\ routing = NoRouting
    /\ exec = NoExec
    /\ calls = <<>>
    /\ result = NoResult
    /\ toolSeen = 0
    /\ pump = NoPump
    /\ handler = NoHandler

ApplyRoute ==
    /\ pc = "route"
    /\ routing' = routeRequest(request, classification, config)
    /\ pc' = "routed"
    /\ UNCHANGED <<config, request, classification, exec, calls, result, toolSeen, pump,
                   handler>>

NextRoute == ApplyRoute

SpecRoute == InitRoute /\ [][NextRoute]_vars

\* ------------------------------------------------------------------------
\* Properties
\* ------------------------------------------------------------------------

\* C1: on the non-streaming path, once an upstream response with tool_calls
\* has been received, no further upstream call is made for the request: the
\* call that returned tool_calls is the last call.
C1_NoCallAfterToolCalls ==
    (toolSeen > 0 /\ ~request.stream) => Len(calls) = toolSeen

\* C2: for a streamed request, no upstream call is dispatched after the first
\* chunk has been written to the client; the pump is attached only once the
\* retry loop has been left, to the response of the last dispatch.
C2_StreamingCommitment ==
    /\ pump.written > 0 => (request.stream /\ Len(calls) = pump.callsAtAttach)
    /\ pump.state /= "none" => pc \in {"piping", "done"}
    /\ pc = "piping" => (result.kind = "stream" /\ result.src = Len(calls))

C2_StreamedAfterEscalation ==
    /\ pc = "done"
    /\ pump.written > 1
    /\ exec.escalated
    /\ Len(calls) > 1

\* C3: the fallback dispatch to the originally requested model happens at
\* most once per request, and only when that model has not been dispatched
\* before for this request.
C3_FallbackAtMostOnce ==
    LET fallbacks == { i \in 1..Len(calls) : calls[i].kind = "fallback" }
    IN  /\ Cardinality(fallbacks) <= 1
        /\ \A i \in fallbacks : \A j \in 1..(i - 1) : calls[j].model /= calls[i].model

\* C4: with alwaysFallbackToOriginal, a non-streaming request never ends with
\* the client receiving a response that was not accepted (not OK, or failing
\* validation) from a model other than the original one: the final dispatch
\* to the original model follows and its response is the one returned.
C4_FinalFallbackReturned ==
    (/\ pc = "done"
     /\ ~request.stream
     /\ handler.branch = "enabled"
     /\ ~handler.caught
     /\ config.escalation.alwaysFallbackToOriginal
     /\ result.kind = "upstream"
     /\ calls[result.src].model /= request.model)
    => (/\ result.ok
        /\ validateResponse(TRUE, exec.responseBody, request, exec.currentTier).valid)

\* C5 (as stated): an exception inside classification, routing or execution
\* results in exactly one pass-through dispatch to the original model.
C5_ExactlyOneDispatch ==
    (pc = "done" /\ handler.caught /\ request.form /= "badjson") =>
        Cardinality({ i \in 1..Len(calls) : calls[i].kind = "passthrough" }) = 1

\* C5 (amended): an exception inside classification, routing or execution
\* results in at most one pass-through dispatch, addressed to the original
\* model: exactly one when a key is configured for that model's provider and
\* none otherwise. The client receives the response of that dispatch, or the
\* proxy's own 500 when there is no key or the dispatch throws.
C5_FailOpen ==
    (pc = "done" /\ handler.caught /\ request.form /= "badjson") =>
        LET passed == { i \in 1..Len(calls) : calls[i].kind = "passthrough" }
            keyed == hasApiKey(config, getProviderForModel(request.model))
        IN  /\ Cardinality(passed) = (IF keyed THEN 1 ELSE 0)
            /\ \A i \in passed :
                  /\ i = Len(calls)
                  /\ calls[i].model = request.model
                  /\ calls[i].provider = getProviderForModel(request.model)
            /\ \/ result.kind = "proxy_error"
               \/ (keyed /\ result.kind = "upstream" /\ result.src = Len(calls))
            /\ ~keyed => result.kind = "proxy_error"

C5_ExecutionThrewThenPassedThrough ==
    /\ pc = "done"
    /\ handler.caught
    /\ request.form = "ok"
    /\ Len(calls) > 1
    /\ result.kind = "upstream"
    /\ result.ok

\* C6: when the routing decision was taken with enabled and dryRun set, every
\* upstream call of the request is sent to the provider of the original model
\* with the original model.
C6_DryRunCallsOriginal ==
    routing.isDryRun =>
        \A i \in 1..Len(calls) :
            /\ calls[i].model = request.model
            /\ calls[i].provider = getProviderForModel(request.model)
            /\ calls[i].wireModel = extractModelName(request.model)

\* C7: with enabled and dryRun set, routeRequest returns the original model,
\* isDryRun, a dry-run reason naming the model it would have routed to (the
\* routed model of the same call without dryRun), and zero savings.
C7_DryRunDecision ==
    (pc = "routed" /\ config.enabled /\ config.dryRun) =>
        /\ routing.originalModel = request.model
        /\ routing.routedModel = request.model
        /\ routing.isDryRun
        /\ routing.reason.text = "dry-run: would route to "
        /\ routing.reason.model =
              routeRequest(request, classification,
                           [config EXCEPT !.dryRun = FALSE]).routedModel
        /\ routing.estimatedSavingsUsd = 0

C7_DryRunWouldReroute ==
    /\ pc = "routed"
    /\ config.enabled
    /\ config.dryRun
    /\ request.tokens = 5000
    /\ routing.reason.model /= request.model
    /\ routing.reason.model = DEFAULT_TIER_MODELS[classification.tier].fallback

\* C8 (as stated): when the handler finds ClawRoute disabled, exactly one
\* upstream call is made.
C8_ExactlyOneCall ==
    (pc = "done" /\ handler.branch = "disabled") => Len(calls) = 1

\* C8 (amended): when the handler finds ClawRoute disabled, at most one
\* upstream call is made: exactly one when a key is configured for the
\* original model's provider and none otherwise. It is the pass-through call
\* to the original model; nothing is classified, escalated or retried. A body
\* that is not JSON never leads to a call.
C8_DisabledPassthrough ==
    /\ handler.branch = "disabled" =>
          /\ Len(calls) =
                (IF hasApiKey(config, getProviderForModel(request.model)) THEN 1 ELSE 0)
          /\ \A i \in 1..Len(calls) :
                /\ calls[i].kind = "passthrough"
                /\ calls[i].model = request.model
                /\ calls[i].provider = getProviderForModel(request.model)
          /\ exec.escalationChain = <<>>
          /\ ~handler.caught
    /\ request.form = "badjson" => calls = <<>>

C8_DisabledOneCall ==
    /\ pc = "done"
    /\ handler.branch = "disabled"
    /\ request.hasTools
    /\ Len(calls) = 1
    /\ result.kind = "upstream"
    /\ result.ok

\* C9: with enabled unset, routeRequest returns the original model,
\* isPassthrough, no override and zero savings, whatever the classification,
\* dryRun and globalForceModel; and every decision with isPassthrough keeps
\* the original model.
C9_DisabledDecision ==
    pc = "routed" =>
        /\ ~config.enabled =>
              /\ routing.routedModel = request.model
              /\ routing.originalModel = request.model
              /\ routing.isPassthrough
              /\ ~routing.isOverride
              /\ routing.estimatedSavingsUsd = 0
        /\ routing.isPassthrough => routing.routedModel = routing.originalModel

C9_DisabledWithOverrideSet ==
    /\ pc = "routed"
    /\ ~config.enabled
    /\ config.dryRun
    /\ config.overrides.globalForceModel /= NoModel
    /\ config.overrides.globalForceModel /= request.model
    /\ routing.isPassthrough

\* C10: with enabled set and globalForceModel set, routeRequest returns
\* globalForceModel with isOverride when dryRun is unset, for every tier and
\* key configuration, and the original model when dryRun is set.
C10_OverridePrecedence ==
    (/\ pc = "routed"
     /\ config.enabled
     /\ config.overrides.globalForceModel /= NoModel)
    => IF config.dryRun
       THEN routing.routedModel = request.model
       ELSE /\ routing.routedModel = config.overrides.globalForceModel
            /\ routing.isOverride

C10_OverrideWithoutKey ==
    /\ pc = "routed"
    /\ config.enabled
    /\ ~config.dryRun
    /\ config.overrides.globalForceModel = Gpt4o
    /\ ~hasApiKey(config, "openai")
    /\ classification.tier = HEARTBEAT
    /\ request.model /= Gpt4o
    /\ routing.routedModel = Gpt4o

\* C11: while ClawRoute is disabled (after POST /api/disable has completed
\* and before the next POST /api/enable), every upstream call that is
\* dispatched goes to the request's originally requested model, for a request
\* admitted afterwards and for one already inside its retry loop.
C11_KillSwitch ==
    [][(~config.enabled /\ ~config'.enabled) =>
          \A i \in (Len(calls) + 1)..Len(calls') : calls'[i].model = request'.model]_vars

InitEscalate ==
    /\ config \in RouteConfigs
    /\ classification \in Classifications
    /\ request = NoRequest
    /\ pc = "escalate"
    /\ routing = NoRouting
    /\ exec = NoExec
    /\ calls = <<>>
    /\ result = NoResult
    /\ toolSeen = 0
    /\ pump = NoPump
    /\ handler = NoHandler

ApplyEscalate ==
    /\ pc = "escalate"
    /\ result' = getEscalatedModel(classification.tier, config)
    /\ pc' = "escalated"
    /\ UNCHANGED <<config, request, classification, routing, exec, calls, toolSeen, pump,
                   handler>>

NextEscalate == ApplyEscalate

SpecEscalate == InitEscalate /\ [][NextEscalate]_vars

\* C13: getEscalatedModel(t, config) returns nothing, or a (model, tier) pair
\* whose tier is strictly above t and is the lowest tier above t that has a
\* keyed primary or fallback; the model is that tier's primary when keyed and
\* its fallback otherwise; nothing is returned for Frontier and when no higher
\* tier has a keyed model.
C13_EscalatedModel ==
    pc = "escalated" =>
        LET t == classification.tier
            keyed(m) == hasApiKey(config, getProviderForModel(m))
            higher == { u \in TaskTier :
                          /\ TIER_ORDER[u] > TIER_ORDER[t]
                          /\ keyed(config.models[u].primary) \/ keyed(config.models[u].fallback) }
        IN  /\ t = FRONTIER => result = NoEscalation
            /\ higher = {} <=> result = NoEscalation
            /\ higher /= {} =>
                  /\ result.tier \in higher
                  /\ TIER_ORDER[result.tier] > TIER_ORDER[t]
                  /\ \A u \in higher : TIER_ORDER[result.tier] <= TIER_ORDER[u]
                  /\ result.model = IF keyed(config.models[result.tier].primary)
                                    THEN config.models[result.tier].primary
                                    ELSE config.models[result.tier].fallback
                  /\ keyed(result.model)

C13_SkipsTierToFallback ==
    /\ pc = "escalated"
    /\ classification.tier = HEARTBEAT
    /\ ~hasApiKey(config, "google")
    /\ ~hasApiKey(config, "deepseek")
    /\ hasApiKey(config, "openai")
    /\ result = [model |-> Gpt4oMini, tier |-> MODERATE]

C15_DispatchBound ==
    Cardinality({ i \in 1..Len(calls) : calls[i].kind \in {"route", "fallback"} })
        <= maxRetries(config) + 2

\* executeRequest has returned its ExecutionResult to the handler.
ExecuteRequestReturned ==
    /\ pc \in {"piping", "done"}
    /\ handler.branch = "enabled"
    /\ ~handler.caught

\* C16 (as stated): at return from executeRequest, escalationChain is exactly
\* the sequence of models dispatched for the request, in dispatch order.
C16_ChainIsDispatchSequence ==
    ExecuteRequestReturned =>
        exec.escalationChain = [i \in 1..Len(calls) |-> calls[i].model]

\* C16 (amended): at return from executeRequest, escalationChain is the
\* sequence of models makeProviderRequest was called for, in order: it starts
\* with routedModel, ends with actualModel, and the models dispatched are its
\* elements whose provider has a key, in the same order, one dispatch each.
C16_ChainIsAttemptSequence ==
    ExecuteRequestReturned =>
        /\ Len(exec.escalationChain) >= 1
        /\ exec.escalationChain[1] = routing.routedModel
        /\ exec.escalationChain[Len(exec.escalationChain)] = exec.currentModel
        /\ DispatchedOf(config, exec.escalationChain) = [i \in 1..Len(calls) |-> calls[i].model]

C16_ChainWithUndispatchedModel ==
    /\ ExecuteRequestReturned
    /\ Len(exec.escalationChain) = 2
    /\ Len(calls) = 1
    /\ calls[1].model = exec.escalationChain[2]

\* ------------------------------------------------------------------------
\* classifyRequest from the outcome of its rule groups on: request holds the
\* tier and confidence the rules arrive at and whether tools are present,
\* config the classification settings.
\* ------------------------------------------------------------------------
RuleConfidences == {40, 60, 70, 85, 95}

MinConfidences == {0, 70, 90}

RuleOutcomes == [tier : TaskTier, confidence : RuleConfidences, hasTools : BOOLEAN]

ClassificationConfigs ==
    [toolAwareRouting : BOOLEAN, conservativeMode : BOOLEAN, minConfidence : MinConfidences]

InitClassify ==
    /\ \E ccfg \in ClassificationConfigs : config = [classification |-> ccfg]
    /\ request \in RuleOutcomes
    /\ classification = NoClassification
    /\ pc = "classify"
    /\ routing = NoRouting
    /\ exec = NoExec
    /\ calls = <<>>
    /\ result = NoResult
    /\ toolSeen = 0
    /\ pump = NoPump
    /\ handler = NoHandler

ApplyClassify ==
    /\ pc = "classify"
    /\ classification' = Adjust(request.tier, request.confidence, request.hasTools,
                                config.classification)
    /\ pc' = "classified"
    /\ UNCHANGED <<config, request, routing, exec, calls, result, toolSeen, pump, handler>>

NextClassify == ApplyClassify

SpecClassify == InitClassify /\ [][NextClassify]_vars

\* C17: classifyRequest returns safeToRetry = true if and only if the final
\* tier is Heartbeat or Simple and the request has no tools; a request with a
\* non-empty tools array gets safeToRetry = false under every configuration.
C17_SafeToRetry ==
    pc = "classified" =>
        /\ classification.safeToRetry <=>
              (classification.tier \in {HEARTBEAT, SIMPLE} /\ ~request.hasTools)
        /\ request.hasTools => ~classification.safeToRetry
        /\ classification.toolsDetected = request.hasTools

C17_ToolsAtHeartbeat ==
    /\ pc = "classified"
    /\ request.hasTools
    /\ ~config.classification.toolAwareRouting
    /\ classification.tier = HEARTBEAT
    /\ ~classification.safeToRetry

\* ------------------------------------------------------------------------
\* The body of a non-streamed success (executor.ts lines 224-269 and 345-355):
\* response.text() decodes the upstream bytes as UTF-8, new Response(bodyText)
\* encodes the string again, and the final Response wraps that body. A body
\* is a sequence of bytes: an optional byte order mark, 123 and 125 for the
\* JSON text around the message content, and the bytes of the content itself.
\* exec holds the locals response and bodyText, result the final Response.
\* ------------------------------------------------------------------------
ByteOrderMark == <<239, 187, 191>>

ContentBytes == {97, 195, 169, 255}

RECURSIVE SeqsUpTo(_, _)
SeqsUpTo(S, n) ==
    IF n = 0 THEN {<<>>}
    ELSE SeqsUpTo(S, n - 1) \cup
         { Append(s, x) : s \in { t \in SeqsUpTo(S, n - 1) : Len(t) = n - 1 }, x \in S }

UpstreamSuccessBodies ==
    { prefix \o <<123>> \o content \o <<125>> :
        prefix \in {<<>>, ByteOrderMark}, content \in SeqsUpTo(ContentBytes, MaxContentLen) }

SuccessStatuses == {200, 201}

IsContinuation(b, lo, hi) == b >= lo /\ b <= hi

\* UTF-8 decode without byte order mark handling: a sequence of code points,
\* one U+FFFD (65533) for every maximal ill-formed part. Lead bytes of one,
\* two and three byte sequences are decoded; any other byte is ill-formed.
RECURSIVE utf8DecodeBytes(_)
utf8DecodeBytes(b) ==
    IF b = <<>> THEN <<>>
    ELSE LET h == Head(b)
             lo == IF h = 224 THEN 160 ELSE 128
             hi == IF h = 237 THEN 159 ELSE 191
         IN  IF h < 128 THEN <<h>> \o utf8DecodeBytes(Tail(b))
             ELSE IF h >= 194 /\ h <= 223
             THEN IF Len(b) >= 2 /\ IsContinuation(b[2], 128, 191)
                  THEN <<(h - 192) * 64 + (b[2] - 128)>> \o utf8DecodeBytes(SubSeq(b, 3, Len(b)))
                  ELSE <<65533>> \o utf8DecodeBytes(Tail(b))
             ELSE IF h >= 224 /\ h <= 239
             THEN IF Len(b) >= 2 /\ IsContinuation(b[2], lo, hi)
                  THEN IF Len(b) >= 3 /\ IsContinuation(b[3], 128, 191)
                       THEN <<(h - 224) * 4096 + (b[2] - 128) * 64 + (b[3] - 128)>>
                                \o utf8DecodeBytes(SubSeq(b, 4, Len(b)))
                       ELSE <<65533>> \o utf8DecodeBytes(SubSeq(b, 3, Len(b)))
                  ELSE <<65533>> \o utf8DecodeBytes(Tail(b))
             ELSE <<65533>> \o utf8DecodeBytes(Tail(b))

\* response.text(): UTF-8 decode, which drops a leading byte order mark.
text(b) ==
    IF Len(b) >= 3 /\ SubSeq(b, 1, 3) = ByteOrderMark
    THEN utf8DecodeBytes(SubSeq(b, 4, Len(b)))
    ELSE utf8DecodeBytes(b)

\* The body of new Response(string): the UTF-8 encoding of the string.
RECURSIVE utf8Encode(_)
utf8Encode(s) ==
    IF s = <<>> THEN <<>>
    ELSE LET c == Head(s)
         IN  (IF c < 128 THEN <<c>>
              ELSE IF c < 2048 THEN <<192 + (c \div 64), 128 + (c % 64)>>
              ELSE <<224 + (c \div 4096), 128 + ((c \div 64) % 64), 128 + (c % 64)>>)
             \o utf8Encode(Tail(s))

InitBody ==
    /\ \E status \in SuccessStatuses, body \in UpstreamSuccessBodies :
          exec = [response |-> [status |-> status, body |-> body], bodyText |-> <<>>]
    /\ pc = "received"
    /\ result = NoResult
    /\ config = Config(TRUE, FALSE, NoModel, Keys({"google"}),
                       [enabled |-> FALSE, maxRetries |-> 0,
                        onlyRetryWithoutToolCalls |-> TRUE, alwaysFallbackToOriginal |-> TRUE],
                       FALSE)
    /\ request = NoRequest
    /\ classification = NoClassification
    /\ routing = NoRouting
    /\ calls = <<>>
    /\ toolSeen = 0
    /\ pump = NoPump
    /\ handler = NoHandler

\* await response.text() (line 228).
ReadText ==
    /\ pc = "received"
    /\ exec' = [exec EXCEPT !.bodyText = text(exec.response.body)]
    /\ pc' = "validated"
    /\ UNCHANGED <<config, request, classification, routing, calls, result, toolSeen, pump,
                   handler>>

\* The valid response is recreated from bodyText (lines 264-268) and wrapped
\* with the X-ClawRoute headers (lines 346-355).
ReturnRecreated ==
    /\ pc = "validated"
    /\ result' = [status |-> exec.response.status, body |-> utf8Encode(exec.bodyText)]
    /\ pc' = "returned"
    /\ UNCHANGED <<config, request, classification, routing, exec, calls, toolSeen, pump,
                   handler>>

NextBody == ReadText \/ ReturnRecreated

SpecBody == InitBody /\ [][NextBody]_vars

\* C18: for a non-streamed request that ends in success, the body returned to
\* the client is byte-for-byte the body of the upstream response of the last
\* dispatched model, and the status is preserved.
C18_ByteForByte ==
    pc = "returned" =>
        /\ result.body = exec.response.body
        /\ result.status = exec.response.status

\* ------------------------------------------------------------------------
\* The streaming and the non-streaming path of executeRequest side by side:
\* the same decision and configuration, and the same upstream outcomes, the
\* i-th outcome answering the i-th dispatch of either path. exec holds the
\* position of the two paths, toolSeen the number of outcomes delivered.
\* ------------------------------------------------------------------------
ValidBody == Body(TRUE, FALSE, "message", "none", "long")

PathEnded(s) == s.pc \in {"done", "piping", "thrown"}

\* A path that does not await a fetch that was sent: it sleeps, or its
\* makeProviderRequest threw for want of a key.
Unsettled(s) ==
    \/ s.pc = "sleep"
    \/ s.pc \in {"attempt", "fallback", "fallbackCatch"} /\ ~s.exec.sent

\* Such a path runs on by itself: the sleep ends and the loop continues, the
\* throw is caught.
Settle(cfg, req, rt, s) ==
    IF s.pc = "sleep" THEN Continue(cfg, s.exec, s.calls)
    ELSE IF s.pc \in {"attempt", "fallback"} /\ ~s.exec.sent
    THEN CatchBranch(cfg, req, rt, s.exec, s.calls)
    ELSE IF s.pc = "fallbackCatch" /\ ~s.exec.sent
    THEN Finish(cfg, req, [s.exec EXCEPT !.response = createErrorResponse], s.calls)
    ELSE s

\* The fetch a path awaits settles with the outcome.
Deliver(cfg, req, rt, s, outcome) ==
    LET ex == s.exec
        cs == s.calls
        got == [ex EXCEPT !.response = IF outcome = "throw" THEN createErrorResponse
                                       ELSE Resp(Len(cs), outcome = "ok", FALSE)]
    IN  IF outcome = "throw" /\ s.pc /= "fallbackCatch"
        THEN CatchBranch(cfg, req, rt, ex, cs)
        ELSE IF outcome = "http_error" /\ s.pc = "attempt"
        THEN HttpErrorBranch(cfg, req, rt, got, cs)
        ELSE IF outcome = "ok" /\ s.pc = "attempt" /\ ~req.stream
        THEN OkBranch(cfg, req, rt, ex, cs, ValidBody)
        ELSE Finish(cfg, req, got, cs)

\* The request as each path sees it.
PathRequest(req, path) == [req EXCEPT !.stream = (path = "streamed")]

Paths == {"streamed", "plain"}

FirstDispatch(cfg, req, rt) ==
    makeProviderRequest(cfg, InitialExec(rt), <<>>, rt.routedModel, "route", "attempt")

InitPaths ==
    /\ config \in { c \in StartupConfigs : c.enabled }
    /\ request \in { r \in Requests : r.form = "ok" /\ ~r.stream }
    /\ classification = classifyRequest(request)
    /\ routing = routeRequest(request, classification, config)
    /\ exec = [path \in Paths |-> FirstDispatch(config, PathRequest(request, path), routing)]
    /\ pc = "paths"
    /\ toolSeen = 0
    /\ calls = <<>>
    /\ result = NoResult
    /\ pump = NoPump
    /\ handler = NoHandler

\* The next upstream outcome: it answers the dispatch of each path that
\* awaits one; an OK ends the sequence.
DeliverOutcome ==
    /\ pc = "paths"
    /\ \A path \in Paths : ~Unsettled(exec[path])
    /\ \E outcome \in (IF \A path \in Paths : PathEnded(exec[path])
                       THEN {"ok"} ELSE {"throw", "http_error", "ok"}) :
          /\ exec' = [path \in Paths |->
                        IF PathEnded(exec[path]) THEN exec[path]
                        ELSE Deliver(config, PathRequest(request, path), routing,
                                     exec[path], outcome)]
          /\ pc' = IF outcome = "ok" THEN "ended" ELSE "paths"
    /\ toolSeen' = toolSeen + 1
    /\ UNCHANGED <<config, request, classification, routing, calls, result, pump, handler>>

\* The paths run on to their next await of a fetch, or to their end.
RunOn ==
    /\ pc = "paths"
    /\ \E path \in Paths : Unsettled(exec[path])
    /\ exec' = [path \in Paths |->
                  Settle(config, PathRequest(request, path), routing, exec[path])]
    /\ UNCHANGED <<config, pc, request, classification, routing, calls, result, toolSeen,
                   pump, handler>>

NextPaths == DeliverOutcome \/ RunOn

SpecPaths == InitPaths /\ [][NextPaths]_vars

\* C19: for the same routing decision, the same configuration and the same
\* sequence of upstream outcomes (statuses that are not OK and transport
\* errors, ended by an OK status), the streaming and the non-streaming path
\* dispatch the same sequence of models.
C19_SameDispatchSequence ==
    (pc = "ended" /\ PathEnded(exec.streamed) /\ PathEnded(exec.plain)) =>
        [i \in 1..Len(exec.streamed.calls) |-> exec.streamed.calls[i].model]
            = [i \in 1..Len(exec.plain.calls) |-> exec.plain.calls[i].model]

\* ------------------------------------------------------------------------
\* streaming.ts pipeStream in detail. Text is a sequence of characters: "n"
\* is a newline, a line "u" is a data frame whose JSON carries usage, a line
\* "t" one whose delta carries tool_calls, anything else fails to parse or is
\* no data frame. pump holds the chunks read, the chunks written to the
\* client, the chunk in hand, the line buffer and the StreamResult.
\* ------------------------------------------------------------------------
UpstreamChunks ==
    { <<"u", "n">>, <<"t", "n">>, <<"x", "n">>, <<"u">>, <<"x">>, <<"n">> }

\* encoder.encode('data: [DONE]\n\n')
DoneFrame == <<"d", "n", "n">>

StreamResult(hadToolCalls, usage, error) ==
    [hadToolCalls |-> hadToolCalls, usage |-> usage, error |-> error]

processSSELine(line, res) ==
    IF line = <<"t">> THEN [res EXCEPT !.hadToolCalls = TRUE]
    ELSE IF line = <<"u">> THEN [res EXCEPT !.usage = TRUE]
    ELSE res

\* buffer.split('\n') with the last piece kept as the new buffer, every
\* other piece given to processSSELine (lines 77-82).
RECURSIVE ProcessLines(_, _, _)
ProcessLines(line, rest, res) ==
    IF rest = <<>> THEN [buffer |-> line, result |-> res]
    ELSE IF Head(rest) = "n" THEN ProcessLines(<<>>, Tail(rest), processSSELine(line, res))
    ELSE ProcessLines(Append(line, Head(rest)), Tail(rest), res)

\* processSSEBuffer on what is left when the upstream is done (lines 63-65).
processSSEBuffer(buffer, res) ==
    LET p == ProcessLines(<<>>, buffer, res)
    IN  processSSELine(p.buffer, p.result)

PipeStart ==
    [read |-> <<>>, written |-> <<>>, value |-> <<>>, buffer |-> <<>>,
     result |-> StreamResult(FALSE, FALSE, "none"),
     upstream |-> "readable", locked |-> TRUE, closed |-> FALSE]

InitPump ==
    /\ pump = PipeStart
    /\ pc = "read"
    /\ config \in { c \in StartupConfigs : c.enabled /\ ~c.dryRun /\ c.license.enabled
                                           /\ c.apiKeys = Keys({"openai"}) }
    /\ request = NoRequest
    /\ classification = NoClassification
    /\ routing = NoRouting
    /\ exec = NoExec
    /\ calls = <<>>
    /\ result = NoResult
    /\ toolSeen = 0
    /\ handler = NoHandler

PumpUnchanged ==
    UNCHANGED <<config, request, classification, routing, exec, calls, result, toolSeen,
                handler>>

\* reader.read() resolves with a chunk (line 59).
ReadChunk ==
    /\ pc = "read"
    /\ Len(pump.read) < MaxChunks
    /\ \E value \in UpstreamChunks :
          pump' = [pump EXCEPT !.read = Append(@, value), !.value = value]
    /\ pc' = "write"
    /\ PumpUnchanged

\* reader.read() resolves with done (lines 61-67).
ReadDone ==
    /\ pc = "read"
    /\ pump' = [pump EXCEPT !.result = IF pump.buffer /= <<>>
                                       THEN processSSEBuffer(pump.buffer, pump.result)
                                       ELSE pump.result,
                            !.upstream = "closed",
                            !.locked = FALSE]
    /\ pc' = "done"
    /\ PumpUnchanged

\* reader.read() rejects (line 84).
ReadFails ==
    /\ pc = "read"
    /\ pump' = [pump EXCEPT !.result.error = "read", !.upstream = "errored"]
    /\ pc' = "catch"
    /\ PumpUnchanged

\* WriteChunk with a fault: a chunk is forwarded only when its lines leave
\* nothing that failed to parse.
WriteChunkParsedOnly ==
    /\ pc = "write"
    /\ LET p == ProcessLines(pump.buffer, pump.value, pump.result)
       IN  pump' = [pump EXCEPT !.written = IF p.result = pump.result /\ p.buffer = <<>>
                                            THEN @ ELSE Append(@, pump.value),
                                !.value = <<>>,
                                !.buffer = p.buffer,
                                !.result = p.result]
    /\ pc' = "read"
    /\ PumpUnchanged

\* writer.write(value) resolves; the chunk is decoded and its complete lines
\* are processed (lines 70-82).
WriteChunk ==
    /\ pc = "write"
    /\ LET p == ProcessLines(pump.buffer, pump.value, pump.result)
       IN  pump' = [pump EXCEPT !.written = Append(@, pump.value),
                                !.value = <<>>,
                                !.buffer = p.buffer,
                                !.result = p.result]
    /\ pc' = "read"
    /\ PumpUnchanged

\* writer.write(value) rejects: the client is gone (line 84).
WriteFails ==
    /\ pc = "write"
    /\ pump' = [pump EXCEPT !.value = <<>>, !.result.error = "write"]
    /\ pc' = "catch"
    /\ PumpUnchanged

\* CatchWritesDone with a fault: the [DONE] frame is written twice.
CatchWritesDoneTwice ==
    /\ pc = "catch"
    /\ pump' = [pump EXCEPT !.written = Append(Append(@, DoneFrame), DoneFrame),
                            !.locked = FALSE]
    /\ pc' = "done"
    /\ PumpUnchanged

\* The catch block (lines 84-92): a [DONE] frame is written when the client
\* still takes it.
CatchWritesDone ==
    /\ pc = "catch"
    /\ \E accepted \in BOOLEAN :
          pump' = [pump EXCEPT !.written = IF accepted THEN Append(@, DoneFrame) ELSE @,
                               !.locked = FALSE]
    /\ pc' = "done"
    /\ PumpUnchanged

\* pipeStream has returned its StreamResult: executeRequest closes the
\* client's writer (executor.ts lines 166-171).
WriterClose ==
    /\ pc = "done"
    /\ pump' = [pump EXCEPT !.closed = TRUE]
    /\ pc' = "closed"
    /\ PumpUnchanged

NextPump ==
    \/ ReadChunk
    \/ ReadDone
    \/ ReadFails
    \/ WriteChunk
    \/ WriteFails
    \/ CatchWritesDone
    \/ WriterClose

SpecPump == InitPump /\ [][NextPump]_vars

\* C20 (as stated): at every point of pipeStream at which no write is
\* pending, the chunks written to the client are exactly the chunks read so
\* far from the upstream body, in the same order.
C20_WrittenIsRead ==
    pc \in {"read", "catch", "done"} => pump.written = pump.read

\* C20 (amended): while no read or write has failed, the chunks written are
\* exactly the chunks read, in order and unmodified, but for the chunk in
\* hand, which is written before the next read; parsing never changes what is
\* written. After a failed read every chunk read has been written, after a
\* failed write every chunk but the one in hand, and the only other thing
\* written is at most one [DONE] frame of the pump's own, at the end.
C20_Forwarding ==
    LET n == Len(pump.read)
        forwarded == IF pump.result.error = "write" THEN SubSeq(pump.read, 1, n - 1)
                     ELSE pump.read
    IN  /\ pc = "write" => pump.read = Append(pump.written, pump.value)
        /\ (pc = "read" \/ (pc = "done" /\ pump.result.error = "none")) =>
              pump.written = pump.read
        /\ pc = "catch" => pump.written = forwarded
        /\ (pc = "done" /\ pump.result.error /= "none") =>
              pump.written \in {forwarded, Append(forwarded, DoneFrame)}

C20_DoneFrameAfterUnparsedChunk ==
    /\ pc = "done"
    /\ pump.result.error = "read"
    /\ pump.read = << <<"x", "n">>, <<"u">> >>
    /\ pump.written = << <<"x", "n">>, <<"u">>, DoneFrame >>
    /\ ~pump.result.usage

\* C21: when a client write has failed, pipeStream reads the upstream no
\* further and, once it has returned, the upstream body has been cancelled or
\* closed, so that the upstream resources are released.
C21_ClientGoneReleasesUpstream ==
    pump.result.error = "write" =>
        /\ pc \in {"catch", "done", "closed"}
        /\ pc \in {"done", "closed"} => pump.upstream \in {"cancelled", "closed", "errored"}

\* C22 (as stated): when an upstream read has failed, pipeStream returns a
\* result with error set and the client has received the chunks already
\* forwarded followed by one [DONE] frame, written before the stream is closed.
C22_DoneFrameWritten ==
    (pump.result.error = "read" /\ pc \in {"done", "closed"}) =>
        pump.written = Append(pump.read, DoneFrame)

\* C22 (amended): when an upstream read has failed, pipeStream attempts one
\* [DONE] frame after the chunks already forwarded and before the client
\* stream is closed: the client has received the chunks read followed by that
\* one frame, or the chunks alone when it no longer takes the write; pipeStream
\* returns a result with error set and the stream is closed only afterwards.
C22_DoneFrameAttempted ==
    /\ (pump.result.error = "read" /\ pc \in {"done", "closed"}) =>
          pump.written \in {pump.read, Append(pump.read, DoneFrame)}
    /\ (pump.result.error = "read" /\ pc = "catch") => pump.written = pump.read
    /\ pump.closed <=> pc = "closed"

C22_DoneFrameThenClosed ==
    /\ pc = "closed"
    /\ pump.result.error = "read"
    /\ Len(pump.read) = 2
    /\ pump.written = Append(pump.read, DoneFrame)

\* ------------------------------------------------------------------------
\* The authentication middleware in front of /v1/* and /api/* and the
\* handlers behind it. request holds the path, the Authorization header as
\* its pieces between spaces (none: no header) and the token query parameter
\* ("none": absent); result holds the response.
\* ------------------------------------------------------------------------
AuthTokens == {"", "secret"}

AuthPaths ==
    {"/v1/chat/completions", "/api/enable", "/api/disable", "/api/dry-run/enable", "/health"}

AuthorizationHeaders ==
    { <<>>, <<"Bearer", "secret">>, <<"bearer", "secret">>, <<"BEARER", "wrong">>,
      <<"Basic", "secret">>, <<"Bearer">>, <<"secret">>, <<"Bearer", "", "secret">> }

QueryTokens == {"none", "", "secret", "wrong"}

AuthRequests == [path : AuthPaths, authorization : AuthorizationHeaders, query : QueryTokens]

\* app.use('/v1/*', ...) and app.use('/api/*', ...)
Guarded(path) == path /= "/health"

\* The middleware with a fault: the scheme of the Authorization header is not
\* looked at.
createAuthMiddlewareAnyScheme(cfg, req) ==
    IF cfg.authToken = "" THEN "next"
    ELSE IF Len(req.authorization) >= 2 /\ req.authorization[2] = cfg.authToken
    THEN "next"
    ELSE IF req.query = cfg.authToken THEN "next"
    ELSE "unauthorized"

createAuthMiddleware(cfg, req) ==
    IF cfg.authToken = "" THEN "next"
    ELSE IF /\ Len(req.authorization) >= 2
            /\ toLowerCase(req.authorization[1]) = "bearer"
            /\ req.authorization[2] = cfg.authToken
    THEN "next"
    ELSE IF req.query = cfg.authToken THEN "next"
    ELSE "unauthorized"

HttpResponse(status, code) == [status |-> status, code |-> code]

InitAuth ==
    /\ config \in [authToken : AuthTokens, enabled : BOOLEAN, dryRun : BOOLEAN]
    /\ request \in AuthRequests
    /\ pc = "arrived"
    /\ result = NoResult
    /\ calls = <<>>
    /\ classification = NoClassification
    /\ routing = NoRouting
    /\ exec = NoExec
    /\ toolSeen = 0
    /\ pump = NoPump
    /\ handler = NoHandler

AuthUnchanged == UNCHANGED <<request, classification, routing, exec, toolSeen, pump, handler>>

\* The middleware runs for a guarded path: it answers 401 or calls next().
AuthMiddleware ==
    /\ pc = "arrived"
    /\ IF Guarded(request.path) /\ createAuthMiddleware(config, request) = "unauthorized"
       THEN /\ result' = HttpResponse(401, "unauthorized")
            /\ pc' = "answered"
       ELSE /\ result' = result
            /\ pc' = "admitted"
    /\ UNCHANGED <<config, calls>>
    /\ AuthUnchanged

\* The handler of the path runs: the admin mutators change the
\* configuration, the chat handler dispatches upstream.
RouteHandler ==
    /\ pc = "admitted"
    /\ config' = IF request.path = "/api/enable" THEN [config EXCEPT !.enabled = TRUE]
                 ELSE IF request.path = "/api/disable" THEN [config EXCEPT !.enabled = FALSE]
                 ELSE IF request.path = "/api/dry-run/enable"
                 THEN [config EXCEPT !.dryRun = TRUE]
                 ELSE config
    /\ calls' = IF request.path = "/v1/chat/completions"
                THEN Append(calls, Call(ClaudeSonnet45, "passthrough"))
                ELSE calls
    /\ result' = HttpResponse(200, "")
    /\ pc' = "answered"
    /\ AuthUnchanged

NextAuth == AuthMiddleware \/ RouteHandler

SpecAuth == InitAuth /\ [][NextAuth]_vars

\* A request that carries neither a matching Bearer token nor a matching
\* token query parameter.
Unauthenticated ==
    /\ ~(/\ Len(request.authorization) >= 2
         /\ request.authorization[1] \in {"Bearer", "bearer", "BEARER"}
         /\ request.authorization[2] = config.authToken)
    /\ request.query /= config.authToken

SecretValues == {"", "s1", "s2"}

SecretConfigs ==
    { [enabled |-> TRUE,
       authToken |-> token,
       apiKeys |-> [p \in ProviderType |-> IF p = "anthropic" THEN key ELSE ""],
       donations |-> [enabled |-> TRUE, nowPaymentsApiKey |-> payKey],
       alerts |-> [slackWebhook |-> webhook]] :
        token \in SecretValues, key \in SecretValues,
        payKey \in SecretValues, webhook \in SecretValues }

Sides == {"first", "second"}

SameButSecretValues(a, b) ==
    /\ a.enabled = b.enabled
    /\ a.donations.enabled = b.donations.enabled
    /\ (a.authToken = "") = (b.authToken = "")
    /\ \A p \in ProviderType : (a.apiKeys[p] = "") = (b.apiKeys[p] = "")
    /\ (a.donations.nowPaymentsApiKey = "") = (b.donations.nowPaymentsApiKey = "")
    /\ (a.alerts.slackWebhook = "") = (b.alerts.slackWebhook = "")

getRedactedConfig(cfg) ==
    [cfg EXCEPT !.authToken = IF cfg.authToken /= "" THEN "[REDACTED]" ELSE "",
                !.apiKeys = [p \in ProviderType |->
                               IF cfg.apiKeys[p] /= "" THEN "[REDACTED]" ELSE ""]]

InitRedact ==
    /\ \E a \in SecretConfigs, b \in SecretConfigs :
          /\ SameButSecretValues(a, b)
          /\ config = [side \in Sides |-> IF side = "first" THEN a ELSE b]
    /\ pc = "config"
    /\ result = NoResult
    /\ request = NoRequest
    /\ classification = NoClassification
    /\ routing = NoRouting
    /\ exec = NoExec
    /\ calls = <<>>
    /\ toolSeen = 0
    /\ pump = NoPump
    /\ handler = NoHandler

\* GET /api/config answers with getRedactedConfig(config).
GetConfig ==
    /\ pc = "config"
    /\ result' = [side \in Sides |-> getRedactedConfig(config[side])]
    /\ pc' = "answered"
    /\ UNCHANGED <<config, request, classification, routing, exec, calls, toolSeen, pump,
                   handler>>

NextRedact == GetConfig

SpecRedact == InitRedact /\ [][NextRedact]_vars

\* C24: the body returned by GET /api/config does not depend on the value of
\* any configured secret: two configurations that differ only in secret
\* values give identical responses.
C24_ConfigResponseHidesSecrets ==
    pc = "answered" => result["first"] = result["second"]

\* ------------------------------------------------------------------------
\* index.ts lines 303-397 with the metrics sink: the handler of Spec, with
\* the callbacks it has passed to setImmediate (scheduled) and the calls of
\* logRouting made so far (records).
\* ------------------------------------------------------------------------
InitLog ==
    /\ config \in StartupConfigs
    /\ pc = "idle"
    /\ request = NoRequest
    /\ classification = NoClassification
    /\ routing = NoRouting
    /\ exec = NoExec
    /\ calls = <<>>
    /\ result = NoResult
    /\ toolSeen = 0
    /\ pump = NoPump
    /\ handler = [branch |-> "none", caught |-> FALSE, responded |-> FALSE,
                  scheduled |-> 0, records |-> 0]

\* executeRequest has returned (line 340): the handler passes the logging
\* callback to setImmediate (line 343) and returns result.response (line 375).
HandlerReturns ==
    /\ ExecuteRequestReturned
    /\ ~handler.responded
    /\ handler' = [handler EXCEPT !.responded = TRUE, !.scheduled = @ + 1]
    /\ UNCHANGED <<config, pc, request, classification, routing, exec, calls, result,
                   toolSeen, pump>>

\* The callback of setImmediate runs: logRouting(logEntry) (line 366).
LogRouting ==
    /\ handler.records < handler.scheduled
    /\ handler' = [handler EXCEPT !.records = @ + 1]
    /\ UNCHANGED <<config, pc, request, classification, routing, exec, calls, result,
                   toolSeen, pump>>

NextLog == Next \/ HandlerReturns \/ LogRouting

SpecLog == InitLog /\ [][NextLog]_vars

\* The client has its answer: the response of executeRequest (line 375), of
\* the pass-through of a disabled proxy (line 319) or of the catch block
\* (lines 384 and 386).
Answered ==
    \/ handler.responded
    \/ pc = "done" /\ (handler.branch = "disabled" \/ handler.caught)

\* C25: for each POST /v1/chat/completions the proxy answers (routed,
\* dry-run, disabled pass-through, fail-open pass-through) exactly one routing
\* record is emitted to the metrics sink: once the request is answered and no
\* callback is pending, the sink has one record of it.
C25_OneRoutingRecord ==
    (Answered /\ handler.records = handler.scheduled) => handler.records = 1

\* ------------------------------------------------------------------------
\* executor.ts under an upstream no dispatch gets through to: every fetch of
\* makeProviderRequest rejects with a transport error.
\* ------------------------------------------------------------------------
\* The fetch of executePassthrough rejects (lines 504-508).
PassthroughThrows ==
    /\ pc = "passthrough"
    /\ Take(Step("done", exec, calls, ClientResult("proxy_error", 0, FALSE)))
    /\ UNCHANGED <<config, request, classification, routing, toolSeen, pump, handler>>

\* The fallback dispatch of the catch block rejects (lines 148-151 and
\* 323-326): createErrorResponse('All models failed').
FallbackCatchThrows ==
    /\ pc = "fallbackCatch"
    /\ Take(Finish(config, request, [exec EXCEPT !.response = createErrorResponse], calls))
    /\ UNCHANGED <<config, request, classification, routing, toolSeen, pump, handler>>

NextTransport ==
    \/ Arrive
    \/ HandleRequest
    \/ HandlerCatch
    \/ PassthroughThrows
    \/ AttemptThrows
    \/ SleepDone
    \/ FallbackCatchThrows

SpecTransport == Init /\ [][NextTransport]_vars

\* The catch block would escalate: retries remain, the decision is
\* safeToRetry and there is a tier above the current one.
EscalationRemains ==
    /\ config.escalation.enabled
    /\ exec.retryCount < maxRetries(config)
    /\ routing.safeToRetry
    /\ getEscalatedModel(exec.currentTier, config) /= NoEscalation

\* The fallback to originalModel has been attempted.
FallbackTried ==
    /\ Len(exec.escalationChain) >= 2
    /\ exec.escalationChain[Len(exec.escalationChain)] = routing.originalModel
    /\ exec.currentModel = routing.originalModel

\* C26: when every dispatch attempted for a request fails with a transport
\* error, executeRequest returns instead of throwing and the client receives
\* the response of createErrorResponse (HTTP 500, code internal_error), and
\* only when no escalation remains and the fallback, if configured, has been
\* tried.
C26_TransportFailureContained ==
    /\ (pc = "thrown") => request.form \in {"badjson", "malformed"}
    /\ (pc = "done" /\ ExecuteRequestReturned) =>
          /\ result = ClientResult("proxy_error", 0, FALSE)
          /\ exec.response = createErrorResponse
          /\ ~EscalationRemains
          /\ config.escalation.alwaysFallbackToOriginal => FallbackTried

\* C26 witness: the routed model, an escalation and the fallback were all
\* dispatched and failed before the client got the error response.
C26_AllPathsFailed ==
    /\ pc = "done"
    /\ ExecuteRequestReturned
    /\ result.kind = "proxy_error"
    /\ exec.escalated
    /\ FallbackTried
    /\ Len(calls) = 3

\* ------------------------------------------------------------------------
\* The HTTP response behind a ClientResult: the error responses the proxy
\* makes itself (createErrorResponse, executor.ts lines 432-448, and the
\* handler's c.json of index.ts lines 386-395) have status 500 and code
\* internal_error; an upstream response keeps the status the provider gave
\* it, which the model does not fix (status 0).
\* ------------------------------------------------------------------------
ProxyErrorResponse == HttpResponse(500, "internal_error")

ClientResponse(res) ==
    IF res.kind = "proxy_error" THEN ProxyErrorResponse ELSE HttpResponse(0, "upstream")

\* C27: a POST /v1/chat/completions whose body is not valid JSON is
\* answered with HTTP 400 and causes no upstream call.
C27_BadJsonAnswered400 ==
    (pc = "done" /\ request.form = "badjson") =>
        /\ ClientResponse(result).status = 400
        /\ calls = <<>>

\* ------------------------------------------------------------------------
\* index.ts lines 237-300: the override endpoints. config carries
\* overrides.sessions here; request is the body of the last call, tagged
\* with its endpoint, result the HTTP answer to it (code holds the error
\* text of a 400); classification, routing and calls are those of the last
\* call when it was a chat request (calls: its first dispatch).
\* ------------------------------------------------------------------------
SessionIds == {"s1", "s2"}

\* remainingTurns: null (limited = FALSE) or a number.
Turns(limited, n) == [limited |-> limited, n |-> n]

SessionOverride(model, remainingTurns, createdAt) ==
    [model |-> model, remainingTurns |-> remainingTurns, createdAt |-> createdAt]

\* No entry under a session id.
NoSession == SessionOverride(NoModel, Turns(FALSE, 0), "")

NoSessions == [id \in SessionIds |-> NoSession]

WithSessions(cfg, sessions) ==
    [cfg EXCEPT !.overrides = [globalForceModel |-> cfg.overrides.globalForceModel,
                               sessions |-> sessions]]

\* nowIso() at the time of the call.
Timestamps == {"t1"}

\* Bodies of POST /api/override/global: enabled is absent, false or true;
\* model is absent (or empty) or a model id.
GlobalBodies ==
    [op : {"global"}, json : {TRUE}, enabled : {"absent", "false", "true"},
     model : ForceModels \cup {NoModel}]
    \cup {[op |-> "global", json |-> FALSE, enabled |-> "absent", model |-> NoModel]}

\* Bodies of POST /api/override/session: turns is absent (given = FALSE) or a
\* number.
SessionPostBodies ==
    [op : {"sessionPost"}, json : {TRUE}, sessionId : SessionIds \cup {""},
     model : ForceModels \cup {NoModel},
     turns : {[given |-> FALSE, n |-> 0], [given |-> TRUE, n |-> 0], [given |-> TRUE, n |-> 2]}]
    \cup {[op |-> "sessionPost", json |-> FALSE, sessionId |-> "", model |-> NoModel,
           turns |-> [given |-> FALSE, n |-> 0]]}

SessionDeleteBodies ==
    [op : {"sessionDelete"}, json : {TRUE}, sessionId : SessionIds \cup {""}]
    \cup {[op |-> "sessionDelete", json |-> FALSE, sessionId |-> ""]}

Answer(cfg, response) == [config |-> cfg, response |-> response]

\* overrideGlobal with a fault: a body without model or enabled:false clears
\* the override.
overrideGlobalClearsOnError(cfg, body) ==
    IF ~body.json THEN Answer(cfg, HttpResponse(400, "Invalid JSON body"))
    ELSE IF body.enabled = "false"
    THEN Answer([cfg EXCEPT !.overrides.globalForceModel = NoModel], HttpResponse(200, "success"))
    ELSE IF body.model /= NoModel
    THEN Answer([cfg EXCEPT !.overrides.globalForceModel = body.model],
                HttpResponse(200, "success"))
    ELSE Answer([cfg EXCEPT !.overrides.globalForceModel = NoModel],
                HttpResponse(400, "Provide model or enabled: false"))

\* POST /api/override/global (lines 238-258).
overrideGlobal(cfg, body) ==
    IF ~body.json THEN Answer(cfg, HttpResponse(400, "Invalid JSON body"))
    ELSE IF body.enabled = "false"
    THEN Answer([cfg EXCEPT !.overrides.globalForceModel = NoModel], HttpResponse(200, "success"))
    ELSE IF body.model /= NoModel
    THEN Answer([cfg EXCEPT !.overrides.globalForceModel = body.model],
                HttpResponse(200, "success"))
    ELSE Answer(cfg, HttpResponse(400, "Provide model or enabled: false"))

\* overrideSessionPost with a fault: the session's model is also made the
\* global force model.
overrideSessionPostForcesModel(cfg, body, now) ==
    IF ~body.json THEN Answer(cfg, HttpResponse(400, "Invalid JSON body"))
    ELSE IF body.sessionId = "" \/ body.model = NoModel
    THEN Answer(cfg, HttpResponse(400, "Provide sessionId and model"))
    ELSE Answer([cfg EXCEPT !.overrides.globalForceModel = body.model,
                            !.overrides.sessions[body.sessionId] =
                                SessionOverride(body.model,
                                                IF body.turns.given
                                                THEN Turns(TRUE, body.turns.n)
                                                ELSE Turns(FALSE, 0),
                                                now)],
                HttpResponse(200, "success"))

\* POST /api/override/session (lines 261-284); body.turns ?? null.
overrideSessionPost(cfg, body, now) ==
    IF ~body.json THEN Answer(cfg, HttpResponse(400, "Invalid JSON body"))
    ELSE IF body.sessionId = "" \/ body.model = NoModel
    THEN Answer(cfg, HttpResponse(400, "Provide sessionId and model"))
    ELSE Answer([cfg EXCEPT !.overrides.sessions[body.sessionId] =
                                SessionOverride(body.model,
                                                IF body.turns.given
                                                THEN Turns(TRUE, body.turns.n)
                                                ELSE Turns(FALSE, 0),
                                                now)],
                HttpResponse(200, "success"))

\* DELETE /api/override/session (lines 286-300).
overrideSessionDelete(cfg, body) ==
    IF ~body.json THEN Answer(cfg, HttpResponse(400, "Invalid JSON body"))
    ELSE IF body.sessionId = ""
    THEN Answer(cfg, HttpResponse(400, "Provide sessionId"))
    ELSE Answer([cfg EXCEPT !.overrides.sessions[body.sessionId] = NoSession],
                HttpResponse(200, "success"))

\* The proxy enabled, with the keys of four providers, in each plan and mode.
OverrideConfigs ==
    { WithSessions(c, NoSessions) :
        c \in { s \in StartupConfigs :
                  /\ s.enabled
                  /\ s.apiKeys = Keys({"anthropic", "openai", "google", "deepseek"})
                  /\ s.escalation.enabled
                  /\ s.escalation.maxRetries = MaxRetriesBound
                  /\ s.escalation.onlyRetryWithoutToolCalls
                  /\ s.escalation.alwaysFallbackToOriginal } }

InitOverride ==
    /\ config \in OverrideConfigs
    /\ pc = "idle"
    /\ request = NoRequest
    /\ classification = NoClassification
    /\ routing = NoRouting
    /\ exec = NoExec
    /\ calls = <<>>
    /\ result = NoResult
    /\ toolSeen = 0
    /\ pump = NoPump
    /\ handler = NoHandler

AdminAnswers(body, answer) ==
    /\ request' = body
    /\ config' = answer.config
    /\ result' = answer.response
    /\ classification' = NoClassification
    /\ routing' = NoRouting
    /\ calls' = <<>>
    /\ UNCHANGED <<pc, exec, toolSeen, pump, handler>>

OverrideGlobal == \E body \in GlobalBodies : AdminAnswers(body, overrideGlobal(config, body))

OverrideSessionPost ==
    \E body \in SessionPostBodies, now \in Timestamps :
       AdminAnswers(body, overrideSessionPost(config, body, now))

OverrideSessionDelete ==
    \E body \in SessionDeleteBodies :
       AdminAnswers(body, overrideSessionDelete(config, body))

\* A chat-completions request is classified, routed and dispatched (lines
\* 323-340 and executor.ts up to the first makeProviderRequest).
RouteChat ==
    /\ \E req \in { r \in Requests : r.form = "ok" /\ ~r.stream } :
          LET cls == classifyRequest(req)
              rt == routeRequest(req, cls, config)
          IN  /\ request' = req
              /\ classification' = cls
              /\ routing' = rt
              /\ calls' = makeProviderRequest(config, InitialExec(rt), <<>>,
                                              rt.routedModel, "route", "attempt").calls
    /\ result' = NoResult
    /\ UNCHANGED <<config, pc, exec, toolSeen, pump, handler>>

NextOverride == OverrideGlobal \/ OverrideSessionPost \/ OverrideSessionDelete \/ RouteChat

SpecOverride == InitOverride /\ [][NextOverride]_vars

\* The step is a call of the endpoint op.
CallOf(op) == "op" \in DOMAIN request' /\ request'.op = op

\* C28: POST /api/override/global with body {model: m} sets globalForceModel
\* to m, with body {enabled:false} sets it to none, and with a body that has
\* neither field or is not JSON answers 400 and leaves the whole
\* configuration unchanged.
C28_GlobalOverrideEndpoint ==
    [][CallOf("global") =>
         LET body == request'
         IN  /\ (body.json /\ body.enabled = "absent" /\ body.model /= NoModel) =>
                   /\ config' = [config EXCEPT !.overrides.globalForceModel = body.model]
                   /\ result'.status = 200
             /\ (body.json /\ body.enabled = "false" /\ body.model = NoModel) =>
                   /\ config' = [config EXCEPT !.overrides.globalForceModel = NoModel]
                   /\ result'.status = 200
             /\ (~body.json \/ (body.enabled = "absent" /\ body.model = NoModel)) =>
                   /\ config' = config
                   /\ result'.status = 400]_vars

\* C28 witness: a body with neither field was answered 400 while a global
\* override was set, and the override is still there.
C28_RejectedBodyKeepsOverride ==
    /\ "op" \in DOMAIN request
    /\ request.op = "global"
    /\ request.json
    /\ request.enabled = "absent"
    /\ request.model = NoModel
    /\ result.status = 400
    /\ config.overrides.globalForceModel = Gpt4o

\* C29: POST and DELETE /api/override/session change only overrides.sessions
\* (POST upserts {model, remainingTurns = turns or unlimited, createdAt},
\* DELETE removes the entry); the routing decision and the dispatch of a chat
\* request are the ones an empty sessions map gives, and a chat request
\* leaves the configuration, remainingTurns included, as it is.
C29_SessionOverridesInert ==
    [][/\ (CallOf("sessionPost") \/ CallOf("sessionDelete")) =>
             config' = WithSessions(config, config'.overrides.sessions)
       /\ (CallOf("sessionPost") /\ result'.status = 200) =>
             /\ request'.json /\ request'.sessionId /= "" /\ request'.model /= NoModel
             /\ \A id \in SessionIds :
                   config'.overrides.sessions[id] =
                      IF id = request'.sessionId
                      THEN [model |-> request'.model,
                            remainingTurns |-> IF request'.turns.given
                                               THEN Turns(TRUE, request'.turns.n)
                                               ELSE Turns(FALSE, 0),
                            createdAt |-> config'.overrides.sessions[id].createdAt]
                      ELSE config.overrides.sessions[id]
             /\ config'.overrides.sessions[request'.sessionId].createdAt \in Timestamps
       /\ (CallOf("sessionDelete") /\ result'.status = 200) =>
             /\ request'.json /\ request'.sessionId /= ""
             /\ \A id \in SessionIds :
                   config'.overrides.sessions[id] =
                      IF id = request'.sessionId THEN NoSession
                      ELSE config.overrides.sessions[id]
       /\ ((CallOf("sessionPost") \/ CallOf("sessionDelete")) /\ result'.status /= 200) =>
             config' = config
       /\ ("form" \in DOMAIN request' /\ request'.form = "ok") =>
             /\ config' = config
             /\ routing' = routeRequest(request', classification',
                                        WithSessions(config, NoSessions))
             /\ calls' = makeProviderRequest(WithSessions(config, NoSessions),
                                             InitialExec(routing'), <<>>,
                                             routing'.routedModel, "route", "attempt").calls
      ]_vars

\* C29 witness: a chat request was routed by tier, not to the model of the
\* session overrides, while both sessions had an override with turns left.
C29_RoutedDespiteSessionOverride ==
    /\ "form" \in DOMAIN request
    /\ request.form = "ok"
    /\ \A id \in SessionIds :
          /\ config.overrides.sessions[id].model = Gpt4o
          /\ config.overrides.sessions[id].remainingTurns = Turns(TRUE, 2)
    /\ config.overrides.globalForceModel = NoModel
    /\ Len(calls) = 1
    /\ routing.routedModel /= Gpt4o
    /\ calls[1].model = routing.routedModel

\* ------------------------------------------------------------------------
\* executor.ts lines 226-269 and 334-367: the response left by the break of
\* line 245.
\* ------------------------------------------------------------------------
\* The non-streaming loop was left by the break of line 245: the response in
\* hand is the 2xx one whose body text() has read, it failed validation, and
\* it has tool calls or the decision is not safeToRetry.
InvalidResponseKept ==
    LET validation == validateResponse(TRUE, exec.responseBody, request, exec.currentTier)
    IN  /\ handler.branch = "enabled"
        /\ ~request.stream
        /\ pc \notin {"attempt", "sleep", "fallback", "fallbackCatch"}
        /\ exec.response.ok
        /\ exec.response.consumed
        /\ ~validation.valid
        /\ (validation.hadToolCalls \/ ~routing.safeToRetry)

\* C30: when a non-streamed 2xx upstream response fails validation and
\* either contains tool_calls or the decision has safeToRetry = false,
\* executeRequest returns that same response to the client and does not
\* throw.
C30_InvalidResponseReturnedAsIs ==
    InvalidResponseKept =>
        /\ pc = "done"
        /\ ~handler.caught
        /\ result = ClientResult("upstream", exec.response.src, TRUE)

\* ------------------------------------------------------------------------
\* executor.ts lines 160-200 and index.ts lines 340-375 for a streamed
\* response: exec holds the locals hadToolCalls and usage (token counts
\* taken from a usage frame) of executeRequest, result the ExecutionResult
\* built at line 188 from their values at that moment, handler the routing
\* record once the setImmediate callback has run. The pump of SpecPump runs
\* beside them.
\* ------------------------------------------------------------------------
InitRecord ==
    /\ pump = PipeStart
    /\ pc = "read"
    /\ config \in { c \in StartupConfigs : c.enabled /\ ~c.dryRun /\ c.license.enabled
                                           /\ c.apiKeys = Keys({"openai"}) }
    /\ exec = [hadToolCalls |-> FALSE, usage |-> FALSE]
    /\ result = [hadToolCalls |-> FALSE, usage |-> FALSE]
    /\ handler = [logged |-> FALSE, had_tool_calls |-> FALSE, usage |-> FALSE]
    /\ request = NoRequest
    /\ classification = NoClassification
    /\ routing = NoRouting
    /\ calls = <<>>
    /\ toolSeen = 0

\* The then-callback of pipeStream (executor.ts lines 166-171): the locals
\* take the pump's findings and the client's writer is closed.
StreamSettled ==
    /\ pc = "done"
    /\ exec' = [hadToolCalls |-> pump.result.hadToolCalls,
                usage |-> exec.usage \/ pump.result.usage]
    /\ pump' = [pump EXCEPT !.closed = TRUE]
    /\ pc' = "closed"
    /\ UNCHANGED <<config, request, classification, routing, calls, result, toolSeen, handler>>

\* The setImmediate callback of the handler (index.ts lines 343-374): the
\* record is built from the fields of the ExecutionResult.
LogRecord ==
    /\ ~handler.logged
    /\ handler' = [logged |-> TRUE, had_tool_calls |-> result.hadToolCalls,
                   usage |-> result.usage]
    /\ UNCHANGED <<config, pc, request, classification, routing, exec, calls, result,
                   toolSeen, pump>>

NextRecord ==
    \/ ReadChunk
    \/ ReadDone
    \/ ReadFails
    \/ WriteChunk
    \/ WriteFails
    \/ CatchWritesDone
    \/ StreamSettled
    \/ LogRecord

SpecRecord == InitRecord /\ [][NextRecord]_vars

\* C31: for a streamed response, what the pump observed is what the
\* ExecutionResult and the routing record report: once the stream has ended
\* and the record is written, a tool_calls delta seen by the pump gives
\* hadToolCalls = true and a usage frame gives its token counts, in both.
C31_RecordReportsStream ==
    (pc = "closed" /\ handler.logged) =>
        /\ pump.result.hadToolCalls => (result.hadToolCalls /\ handler.had_tool_calls)
        /\ pump.result.usage => (result.usage /\ handler.usage)

\* C32: while globalForceModel is set (enabled, not dryRun), every upstream
\* call for a request goes to globalForceModel, or to originalModel as the
\* final fallback; escalation never dispatches a tier model in place of the
\* forced model.
C32_ForcedModelOnly ==
    (handler.branch = "enabled" /\ routing.isOverride /\ ~routing.isDryRun) =>
        /\ routing.routedModel = config.overrides.globalForceModel
        /\ \A i \in 1..Len(calls) :
              calls[i].model \in {config.overrides.globalForceModel, routing.originalModel}

\* ------------------------------------------------------------------------
\* Two requests in flight at once. Each task has its request, its routing
\* decision and the locals of its executeRequest (executor.ts lines 60-73,
\* streaming.ts lines 37-55); the tasks take turns at their suspension
\* points. exec[t] holds task t twice: as it runs among the others
\* ("shared") and as it runs with the same upstream outcomes and no other
\* request in the process ("alone").
\* ------------------------------------------------------------------------
Tasks == {"a", "b"}

Worlds == {"shared", "alone"}

TaskRequests ==
    { r \in Requests : r.form = "ok" /\ ~r.hasTools /\ r.model = ClaudeSonnet45
                       /\ r.tier \in {HEARTBEAT, MODERATE} }

TaskConfigs ==
    { c \in StartupConfigs : /\ c.enabled
                             /\ ~c.dryRun
                             /\ c.escalation.enabled
                             /\ c.escalation.maxRetries = MaxRetriesBound
                             /\ c.escalation.onlyRetryWithoutToolCalls }

Task(req, rt, step) == [request |-> req, routing |-> rt, step |-> step]

TaskEnded(task) == task.step.pc \in {"done", "thrown"}

\* TaskAdvance with a fault: the retry counter is one counter of the
\* process, shared by the requests in flight.
TaskAdvanceSharedRetry(cfg, all, t, outcome) ==
    LET counts == { all[u].step.exec.retryCount : u \in DOMAIN all }
        most == CHOOSE n \in counts : \A k \in counts : k <= n
        s == [all[t].step EXCEPT !.exec.retryCount = most]
        req == all[t].request
        rt == all[t].routing
    IN  [all[t] EXCEPT !.step = IF s.pc = "piping" THEN [s EXCEPT !.pc = "done"]
                                ELSE IF Unsettled(s) THEN Settle(cfg, req, rt, s)
                                ELSE Deliver(cfg, req, rt, s, outcome)]

\* Task t of the tasks in flight runs from one suspension point to the next:
\* its pump ends, its sleep ends, or the fetch it awaits settles with the
\* outcome. Only the locals of t are read and written.
TaskAdvance(cfg, all, t, outcome) ==
    LET s == all[t].step
        req == all[t].request
        rt == all[t].routing
    IN  [all[t] EXCEPT !.step = IF s.pc = "piping" THEN [s EXCEPT !.pc = "done"]
                                ELSE IF Unsettled(s) THEN Settle(cfg, req, rt, s)
                                ELSE Deliver(cfg, req, rt, s, outcome)]

\* The tasks in flight as task t sees them in a world.
InFlight(world, t) ==
    IF world = "shared" THEN [u \in Tasks |-> exec[u]["shared"]]
    ELSE [u \in {t} |-> exec[u]["alone"]]

InitTasks ==
    /\ config \in TaskConfigs
    /\ request \in [Tasks -> TaskRequests]
    /\ classification = [t \in Tasks |-> classifyRequest(request[t])]
    /\ routing = [t \in Tasks |-> routeRequest(request[t], classification[t], config)]
    /\ exec = [t \in Tasks |->
                [world \in Worlds |->
                   Task(request[t], routing[t],
                        FirstDispatch(config, request[t], routing[t]))]]
    /\ pc = "tasks"
    /\ calls = <<>>
    /\ result = NoResult
    /\ toolSeen = 0
    /\ pump = NoPump
    /\ handler = NoHandler

TaskStep ==
    /\ \E t \in Tasks, outcome \in {"throw", "http_error", "ok"} :
          /\ ~TaskEnded(exec[t]["shared"])
          /\ exec' = [exec EXCEPT ![t] =
                        [world \in Worlds |->
                           TaskAdvance(config, InFlight(world, t), t, outcome)]]
    /\ UNCHANGED <<config, pc, request, classification, routing, calls, result, toolSeen,
                   pump, handler>>

NextTasks == TaskStep

SpecTasks == InitTasks /\ [][NextTasks]_vars

FieldNames == {"model", "messages", "stream", "x_vendor_option"}

FieldValues == {<<"m1">>, <<"v1">>, <<"v2">>}

\* Parsed bodies: messages is always there, any other field may be absent.
ClientBodies ==
    UNION { { f \in [names -> FieldValues \cup {ClaudeSonnet45}] :
                /\ f["messages"] = <<"m1">>
                /\ "model" \in names => f["model"] = ClaudeSonnet45
                /\ \A k \in names \ {"model", "messages"} : f[k] \in {<<"v1">>, <<"v2">>} } :
            names \in { n \in SUBSET FieldNames : "messages" \in n } }

DispatchModels ==
    {GeminiFlashLite, Gpt4o, BareGpt4o, <<"openrouter", "google", "gemini-2.5-pro">>}

InitForward ==
    /\ request \in ClientBodies
    /\ handler = [received |-> request]
    /\ calls = <<>>
    /\ pc = "attempt"
    /\ config \in { c \in StartupConfigs : c.enabled /\ ~c.dryRun /\ c.license.enabled
                                           /\ c.apiKeys = Keys({"openai"})
                                           /\ c.escalation.enabled
                                           /\ c.escalation.maxRetries = MaxRetriesBound
                                           /\ c.escalation.onlyRetryWithoutToolCalls
                                           /\ c.escalation.alwaysFallbackToOriginal }
    /\ classification = NoClassification
    /\ routing = NoRouting
    /\ exec = NoExec
    /\ result = NoResult
    /\ toolSeen = 0
    /\ pump = NoPump

\* One attempt of the request: makeProviderRequest(request, modelId, config)
\* builds and sends the body; request is left as it is.
SendAttempt ==
    /\ pc = "attempt"
    /\ Len(calls) < MaxRetriesBound + 2
    /\ \E modelId \in DispatchModels :
          calls' = Append(calls, [model |-> modelId, body |-> buildBody(request, modelId)])
    /\ UNCHANGED <<config, pc, request, classification, routing, exec, result, toolSeen,
                   pump, handler>>

NextForward == SendAttempt

SpecForward == InitForward /\ [][NextForward]_vars

\* The text of a model id after its first '/', the id itself when it has
\* none.
BareName(modelId) == IF Len(modelId) > 1 THEN SubSeq(modelId, 2, Len(modelId)) ELSE modelId

\* C34: the body sent upstream equals the client's request with only the
\* model field replaced by the bare model name; every other field,
\* unrecognized ones included, is forwarded unchanged, and the client's
\* request value is not modified between attempts.
C34_BodyForwarded ==
    /\ request = handler.received
    /\ \A i \in 1..Len(calls) :
          /\ DOMAIN calls[i].body = (DOMAIN handler.received) \cup {"model"}
          /\ calls[i].body["model"] = BareName(calls[i].model)
          /\ \A k \in (DOMAIN handler.received) \ {"model"} :
                calls[i].body[k] = handler.received[k]

\* C34 witness: a request with a field the proxy does not know was sent to
\* two different models, the field in both bodies.
C34_UnrecognizedFieldSentTwice ==
    /\ Len(calls) = 2
    /\ calls[1].model = GeminiFlashLite
    /\ calls[2].model = Gpt4o
    /\ "x_vendor_option" \in DOMAIN request
    /\ calls[1].body["x_vendor_option"] = <<"v2">>
    /\ calls[2].body["x_vendor_option"] = <<"v2">>
    /\ calls[2].body["model"] = <<"gpt-4o">>

\* C35: with toolAwareRouting on, every request with a non-empty tools array
\* is classified Complex or Frontier, whatever tier and confidence the rule
\* groups arrived at; when the tool-aware rule raised the tier the confidence
\* is at most 0.8; and the post-classification adjustments never lower a
\* tier.
C35_ToolAwareFloor ==
    pc = "classified" =>
        /\ (config.classification.toolAwareRouting /\ request.hasTools) =>
              classification.tier \in {COMPLEX, FRONTIER}
        /\ (/\ config.classification.toolAwareRouting
            /\ request.hasTools
            /\ TIER_ORDER[request.tier] < TIER_ORDER[COMPLEX]) =>
              classification.confidence <= 80
        /\ TIER_ORDER[classification.tier] >= TIER_ORDER[request.tier]

\* C35 witness: a heartbeat at confidence 0.95 with tools was raised to
\* Complex by the tool-aware rule alone, its confidence cut to 0.8.
C35_HeartbeatWithToolsRaised ==
    /\ pc = "classified"
    /\ config.classification.toolAwareRouting
    /\ ~config.classification.conservativeMode
    /\ request.hasTools
    /\ request.tier = HEARTBEAT
    /\ request.confidence = 95
    /\ classification.tier = COMPLEX
    /\ classification.confidence = 80

\* ------------------------------------------------------------------------
\* validator.ts lines 27-135 with the tool calls of the message as a list.
\* A tool call has a name that is or is not among request.tools and
\* arguments of one kind: blank (empty or white space), braces ('{}'),
\* object (JSON for a value other than null), null (the JSON text 'null'),
\* garbage (not JSON). request holds the arguments of validateResponse,
\* result what it returns.
\* ------------------------------------------------------------------------
ArgumentKinds == {"blank", "braces", "object", "null", "garbage"}

ToolCall(known, arguments) == [known |-> known, arguments |-> arguments]

ToolCalls == { ToolCall(known, arguments) : known \in BOOLEAN, arguments \in ArgumentKinds }

ToolCallLists ==
    {<<>>} \cup { <<c>> : c \in ToolCalls } \cup { <<c, d>> : c \in ToolCalls, d \in ToolCalls }

\* safeJsonParse(argsJson): null when the text does not parse, and also the
\* value of the text 'null'.
safeJsonParse(arguments) == IF arguments \in {"garbage", "null"} THEN "null" ELSE "value"

\* The loop over toolCalls (lines 91-116): the reason of the first check
\* that fails, "" when none does.
RECURSIVE checkToolCalls(_)
checkToolCalls(toolCalls) ==
    IF toolCalls = <<>> THEN ""
    ELSE IF ~Head(toolCalls).known THEN "unknown_tool_name"
    ELSE IF /\ Head(toolCalls).arguments /= "blank"
            /\ safeJsonParse(Head(toolCalls).arguments) = "null"
            /\ Head(toolCalls).arguments /= "braces"
    THEN "invalid_tool_call_json"
    ELSE checkToolCalls(Tail(toolCalls))

\* validateToolCalls with a fault: an invalid result does not report the
\* tool calls.
validateToolCallsHidden(ok, body, hasTools, tier) ==
    IF ~ok THEN Validation(FALSE, "http_error", FALSE)
    ELSE IF ~body.json THEN Validation(FALSE, "invalid_json_body", FALSE)
    ELSE IF body.error THEN Validation(FALSE, "api_error_response", FALSE)
    ELSE IF body.shape /= "message" THEN Validation(FALSE, body.shape, FALSE)
    ELSE LET hadToolCalls == body.toolCalls /= <<>>
             failed == IF hadToolCalls /\ hasTools THEN checkToolCalls(body.toolCalls) ELSE ""
         IN  IF failed /= "" THEN Validation(FALSE, failed, FALSE)
             ELSE IF tier /= HEARTBEAT /\ ~hadToolCalls /\ body.content = "short"
             THEN Validation(FALSE, "suspiciously_short_response", FALSE)
             ELSE Validation(TRUE, "ok", hadToolCalls)

\* validateResponse (lines 27-135) on a body whose tool_calls are a list.
validateToolCalls(ok, body, hasTools, tier) ==
    IF ~ok THEN Validation(FALSE, "http_error", FALSE)
    ELSE IF ~body.json THEN Validation(FALSE, "invalid_json_body", FALSE)
    ELSE IF body.error THEN Validation(FALSE, "api_error_response", FALSE)
    ELSE IF body.shape /= "message" THEN Validation(FALSE, body.shape, FALSE)
    ELSE LET hadToolCalls == body.toolCalls /= <<>>
             failed == IF hadToolCalls /\ hasTools THEN checkToolCalls(body.toolCalls) ELSE ""
         IN  IF failed /= "" THEN Validation(FALSE, failed, TRUE)
             ELSE IF tier /= HEARTBEAT /\ ~hadToolCalls /\ body.content = "short"
             THEN Validation(FALSE, "suspiciously_short_response", FALSE)
             ELSE Validation(TRUE, "ok", hadToolCalls)

\* Parsed bodies with a first choice and a message, and the body that did
\* not parse.
ValidatedBodies ==
    { Body(TRUE, error, "message", toolCalls, content) :
        error \in BOOLEAN, toolCalls \in ToolCallLists, content \in {"short", "long"} }
    \cup { Body(TRUE, FALSE, shape, <<>>, "empty") :
             shape \in {"no_choices", "no_first_choice", "no_message"} }
    \cup { Body(FALSE, FALSE, "none", <<>>, "empty") }

InitValidate ==
    /\ request \in [ok : BOOLEAN, body : ValidatedBodies, hasTools : BOOLEAN,
                    tier : {HEARTBEAT, COMPLEX}]
    /\ result = Validation(FALSE, "", FALSE)
    /\ pc = "validate"
    /\ config \in { c \in StartupConfigs : c.enabled /\ ~c.dryRun /\ c.license.enabled
                                           /\ c.apiKeys = Keys({"openai"})
                                           /\ c.escalation.enabled
                                           /\ c.escalation.maxRetries = MaxRetriesBound
                                           /\ c.escalation.onlyRetryWithoutToolCalls
                                           /\ c.escalation.alwaysFallbackToOriginal }
    /\ classification = NoClassification
    /\ routing = NoRouting
    /\ exec = NoExec
    /\ calls = <<>>
    /\ toolSeen = 0
    /\ pump = NoPump
    /\ handler = NoHandler

ApplyValidate ==
    /\ pc = "validate"
    /\ result' = validateToolCalls(request.ok, request.body, request.hasTools, request.tier)
    /\ pc' = "validated"
    /\ UNCHANGED <<config, request, classification, routing, exec, calls, toolSeen, pump,
                   handler>>

NextValidate == ApplyValidate

SpecValidate == InitValidate /\ [][NextValidate]_vars

\* The request declared tools and the first choice's message has a
\* non-empty tool_calls list.
ToolCallsPresent ==
    /\ request.hasTools
    /\ request.body.json
    /\ request.body.shape = "message"
    /\ request.body.toolCalls /= <<>>

\* The tool calls validateResponse rejects: an unknown name, or arguments
\* that are not blank, not '{}' and for which safeJsonParse gives null.
Offending(call) == ~call.known \/ call.arguments \in {"garbage", "null"}

\* C36 (as stated): validateResponse reports hadToolCalls = true whenever the
\* request declared tools and the first choice's message has a non-empty
\* tool_calls list, valid or not; a called name that is not in the tool set
\* gives reason unknown_tool_name, and unparsable non-empty arguments give
\* reason invalid_tool_call_json.
C36_ToolCallsAlwaysReported ==
    (pc = "validated" /\ ToolCallsPresent) =>
        /\ result.hadToolCalls
        /\ (\E i \in DOMAIN request.body.toolCalls : ~request.body.toolCalls[i].known) =>
              (~result.valid /\ result.reason = "unknown_tool_name")
        /\ (\E i \in DOMAIN request.body.toolCalls :
               request.body.toolCalls[i].arguments = "garbage") =>
              (~result.valid /\ result.reason = "invalid_tool_call_json")

\* C36 (amended): for a response that is OK and whose body has no error
\* field, validateResponse reports hadToolCalls = true whenever the request
\* declared tools and the message has a non-empty tool_calls list, valid or
\* not; a call with an unknown name or with unparsable non-empty arguments
\* makes the result invalid, and the reason is that of the first such call in
\* list order, its name being checked before its arguments.
C36_ToolCallsReported ==
    (pc = "validated" /\ ToolCallsPresent /\ request.ok /\ ~request.body.error) =>
        LET toolCalls == request.body.toolCalls
            bad == { i \in DOMAIN toolCalls : Offending(toolCalls[i]) }
        IN  /\ result.hadToolCalls
            /\ bad /= {} =>
                  LET first == CHOOSE i \in bad : \A k \in bad : i <= k
                  IN  /\ ~result.valid
                      /\ result.reason = IF ~toolCalls[first].known
                                         THEN "unknown_tool_name"
                                         ELSE "invalid_tool_call_json"
            /\ bad = {} => result.valid

\* C36 witness: the first call has arguments that do not parse, the second
\* an unknown name; the result is invalid for the arguments and reports the
\* tool calls.
C36_BadArgumentsBeforeUnknownName ==
    /\ pc = "validated"
    /\ ToolCallsPresent
    /\ request.ok
    /\ ~request.body.error
    /\ request.body.toolCalls = <<ToolCall(TRUE, "garbage"), ToolCall(FALSE, "object")>>
    /\ result = Validation(FALSE, "invalid_tool_call_json", TRUE)

\* C37: at return from executeRequest, escalated is true exactly when at
\* least one escalation step was taken (retryCount counts them) and the tier
\* then is above the tier of the decision; escalated = true implies an
\* escalationChain of length at least 2; a request that only fell back to
\* originalModel has escalated = false, its chain being routedModel followed
\* by originalModel entries only.
C37_EscalatedFlag ==
    ExecuteRequestReturned =>
        /\ exec.escalated <=> exec.retryCount >= 1
        /\ exec.escalated <=> TIER_ORDER[exec.currentTier] > TIER_ORDER[routing.tier]
        /\ exec.escalated => Len(exec.escalationChain) >= 2
        /\ exec.escalationChain[1] = routing.routedModel
        /\ ~exec.escalated =>
              \A i \in 2..Len(exec.escalationChain) :
                  exec.escalationChain[i] = routing.originalModel

\* C37 witness: a request returns after a fallback to originalModel only,
\* with escalated = false and a chain of two models.
C37_FallbackOnlyNotEscalated ==
    /\ ExecuteRequestReturned
    /\ ~exec.escalated
    /\ routing.routedModel /= routing.originalModel
    /\ exec.escalationChain = <<routing.routedModel, routing.originalModel>>
    /\ Len(calls) = 2

\* ------------------------------------------------------------------------
\* executeRequest with more retries allowed than there are tiers: the
\* handler and the retry loop of Spec, started from configurations whose
\* maxRetries is 0 or above the number of tiers, without admin calls.
\* ------------------------------------------------------------------------
ChainRetries == {0, Len(tierOrder) + MaxRetriesBound}

ChainConfigs ==
    { Config(TRUE, FALSE, NoModel, keys, esc, pro) :
        keys \in KeyConfigs,
        esc \in [enabled : BOOLEAN,
                 maxRetries : ChainRetries,
                 onlyRetryWithoutToolCalls : BOOLEAN,
                 alwaysFallbackToOriginal : BOOLEAN],
        pro \in BOOLEAN }

InitChain ==
    /\ config \in ChainConfigs
    /\ pc = "idle"
    /\ request = NoRequest
    /\ classification = NoClassification
    /\ routing = NoRouting
    /\ exec = NoExec
    /\ calls = <<>>
    /\ result = NoResult
    /\ toolSeen = 0
    /\ pump = NoPump
    /\ handler = NoHandler

NextChain ==
    \/ Arrive
    \/ HandleRequest
    \/ HandlerCatch
    \/ PassthroughReturns
    \/ AttemptThrows
    \/ AttemptHttpError
    \/ AttemptOk
    \/ SleepDone
    \/ FallbackReturns
    \/ FallbackCatchReturns
    \/ PumpChunk
    \/ PumpEnd

SpecChain == InitChain /\ [][NextChain]_vars

\* C38: within one request, the tier of each escalation is strictly above
\* the tier of the attempt before it and currentTier changes by escalation
\* only, so the number of escalations is at most the number of tiers gained:
\* at most four, whatever the value of maxRetries.
C38_EscalationTiersRise ==
    /\ [][(exec.currentTier \in TaskTier /\ exec'.currentTier /= exec.currentTier) =>
             /\ pc = "sleep"
             /\ exec'.currentTier \in TaskTier
             /\ TIER_ORDER[exec'.currentTier] > TIER_ORDER[exec.currentTier]
             /\ exec'.retryCount = exec.retryCount + 1]_vars
    /\ [][pc = "sleep" => TIER_ORDER[exec'.currentTier] > TIER_ORDER[exec.currentTier]]_vars
    /\ [](exec.currentTier \in TaskTier =>
             /\ exec.retryCount <= TIER_ORDER[exec.currentTier] - TIER_ORDER[routing.tier]
             /\ exec.retryCount <= 4)

\* C38 witness: a Heartbeat request was escalated through the four tiers
\* above it, failed again with retries left, and went to the original model
\* instead of a fifth escalation.
C38_FourEscalationsThenFallback ==
    /\ ExecuteRequestReturned
    /\ routing.tier = HEARTBEAT
    /\ exec.retryCount = 4
    /\ exec.currentTier = FRONTIER
    /\ exec.retryCount < maxRetries(config)
    /\ Len(exec.escalationChain) = 6
    /\ exec.escalationChain[6] = routing.originalModel

\* ------------------------------------------------------------------------
\* index.ts lines 303-340 statement by statement, with the admin handlers
\* of lines 211-258. Handlers run on one event loop: a handler gives way to
\* another one at an await only, so the admin handlers run while the chat
\* handler is suspended and not between two of its synchronous statements.
\* handler.seen holds enabled, dryRun and globalForceModel as they were at
\* the enabled check of line 315.
\* ------------------------------------------------------------------------
Snapshot(cfg) ==
    [enabled |-> cfg.enabled, dryRun |-> cfg.dryRun,
     globalForceModel |-> cfg.overrides.globalForceModel]

WithSnapshot(cfg, seen) ==
    [cfg EXCEPT !.enabled = seen.enabled,
                !.dryRun = seen.dryRun,
                !.overrides.globalForceModel = seen.globalForceModel]

\* The positions of the chat handler at which every handler may run, as if
\* the statements of a handler could be preempted.
AnyPoint == {"idle", "reading", "checked", "classified", "executing"}

\* The positions at which the chat handler is suspended: before the request,
\* at await c.req.json() (line 308) and at await executeRequest or
\* executePassthrough (lines 319 and 340).
AwaitPoints == {"idle", "reading", "executing"}

AdminOps == {"enable", "disable", "dryRunEnable", "dryRunDisable", "force", "clear"}

\* The mutation of one admin handler (lines 212-249).
AdminMutation(cfg, op) ==
    IF op = "enable" THEN [cfg EXCEPT !.enabled = TRUE]
    ELSE IF op = "disable" THEN [cfg EXCEPT !.enabled = FALSE]
    ELSE IF op = "dryRunEnable" THEN [cfg EXCEPT !.dryRun = TRUE]
    ELSE IF op = "dryRunDisable" THEN [cfg EXCEPT !.dryRun = FALSE]
    ELSE IF op = "force" THEN [cfg EXCEPT !.overrides.globalForceModel = Gpt4o]
    ELSE [cfg EXCEPT !.overrides.globalForceModel = NoModel]

InitSnapshot ==
    /\ config \in { c \in StartupConfigs : /\ c.escalation.enabled
                                           /\ c.escalation.maxRetries = MaxRetriesBound
                                           /\ c.escalation.onlyRetryWithoutToolCalls
                                           /\ c.escalation.alwaysFallbackToOriginal }
    /\ pc = "idle"
    /\ request = NoRequest
    /\ classification = NoClassification
    /\ routing = NoRouting
    /\ exec = NoExec
    /\ calls = <<>>
    /\ result = NoResult
    /\ toolSeen = 0
    /\ pump = NoPump
    /\ handler = [branch |-> "none", seen |-> Snapshot(config)]

\* An admin handler runs to its end.
AdminRuns ==
    /\ pc \in AwaitPoints
    /\ \E op \in AdminOps : config' = AdminMutation(config, op)
    /\ UNCHANGED <<pc, request, classification, routing, exec, calls, result, toolSeen, pump,
                   handler>>

\* A well-formed chat request arrives; the handler awaits its body.
ChatArrives ==
    /\ pc = "idle"
    /\ \E req \in { r \in Requests : r.form = "ok" /\ ~r.stream } : request' = req
    /\ pc' = "reading"
    /\ classification' = NoClassification
    /\ routing' = NoRouting
    /\ UNCHANGED <<config, exec, calls, result, toolSeen, pump, handler>>

\* if (!config.enabled) of line 315.
EnabledCheck ==
    /\ pc = "reading"
    /\ handler' = [branch |-> IF config.enabled THEN "enabled" ELSE "disabled",
                   seen |-> Snapshot(config)]
    /\ pc' = IF config.enabled THEN "checked" ELSE "executing"
    /\ UNCHANGED <<config, request, classification, routing, exec, calls, result, toolSeen,
                   pump>>

\* classifyRequest(body, config) of line 323.
ClassifyStep ==
    /\ pc = "checked"
    /\ classification' = classifyRequest(request)
    /\ pc' = "classified"
    /\ UNCHANGED <<config, request, routing, exec, calls, result, toolSeen, pump, handler>>

\* routeRequest(body, classification, config) of line 330, up to the await
\* of line 340.
RouteStep ==
    /\ pc = "classified"
    /\ routing' = routeRequest(request, classification, config)
    /\ pc' = "executing"
    /\ UNCHANGED <<config, request, classification, exec, calls, result, toolSeen, pump,
                   handler>>

\* executeRequest or executePassthrough has returned and the client is
\* answered.
ChatAnswered ==
    /\ pc = "executing"
    /\ pc' = "idle"
    /\ UNCHANGED <<config, request, classification, routing, exec, calls, result, toolSeen,
                   pump, handler>>

NextSnapshot ==
    \/ AdminRuns
    \/ ChatArrives
    \/ EnabledCheck
    \/ ClassifyStep
    \/ RouteStep
    \/ ChatAnswered

SpecSnapshot == InitSnapshot /\ [][NextSnapshot]_vars

\* C39: from the enabled check to routeRequest the chat handler sees one
\* configuration: enabled, dryRun and globalForceModel do not change between
\* the check and the decision, a request that passed the check never gets
\* the 'ClawRoute disabled' decision, and its decision is the one routeRequest
\* gives for the values seen at the check.
C39_SingleSnapshot ==
    /\ pc \in {"checked", "classified"} =>
          (handler.seen.enabled /\ Snapshot(config) = handler.seen)
    /\ (handler.branch = "enabled" /\ routing /= NoRouting) =>
          /\ routing /= DisabledDecision(request, classification)
          /\ routing.reason /= Reason("ClawRoute disabled", "", NoModel, "")
          /\ routing = routeRequest(request, classification,
                                    WithSnapshot(config, handler.seen))

\* C39 witness: the override was set while the body was being read and
\* ClawRoute was disabled while executeRequest was awaited; the decision is
\* the forced one of the configuration seen at the check.
C39_DisabledAfterDecision ==
    /\ pc = "executing"
    /\ handler.branch = "enabled"
    /\ handler.seen.globalForceModel = Gpt4o
    /\ ~config.enabled
    /\ config.overrides.globalForceModel = NoModel
    /\ routing.isOverride
    /\ routing.routedModel = Gpt4o

\* ------------------------------------------------------------------------
\* The retry loop under fairness: every upstream call that is awaited
\* eventually returns or fails and every retry sleep ends.
\* ------------------------------------------------------------------------
UpstreamSettles == AttemptThrows \/ AttemptHttpError \/ AttemptOk

FallbackSettles == FallbackReturns \/ FallbackCatchReturns

SpecReturn ==
    /\ InitChain
    /\ [][NextChain]_vars
    /\ WF_vars(UpstreamSettles)
    /\ WF_vars(SleepDone)
    /\ WF_vars(FallbackSettles)

\* executeRequest has been called and awaits its first upstream call.
ExecuteRequestCalled == pc = "attempt" /\ handler.branch = "enabled"

\* Every call of executeRequest ends, by a return or by a throw: the retry
\* loop runs finitely many iterations on both paths.
ExecuteRequestEnds == ExecuteRequestCalled ~> (pc \in {"piping", "done", "thrown"})

\* C40: assuming every upstream call eventually returns or fails and every
\* retry sleep ends, every call of executeRequest eventually returns an
\* ExecutionResult, for every sequence of upstream outcomes.
C40_ExecuteRequestReturns == ExecuteRequestCalled ~> ExecuteRequestReturned

====
